---------------------------- MODULE Spec2Model ----------------------------
(***************************************************************************)
(* Model of the RocketTelemetry visualisation component                    *)
(* (src/components/telemetry-advanced-visualization.tsx): the three sensor *)
(* fusion filters, the batch loader and the live (WebSocket) window.       *)
(*                                                                         *)
(* Numbers.  The program computes in IEEE doubles.  The model computes in  *)
(* fixed point: a number is an integer counting thousandths (SCALE), and   *)
(* three reserved integers stand for NaN, +Infinity and -Infinity, which   *)
(* follow the IEEE rules (x/0, 0*Infinity, comparisons with NaN, ...).     *)
(* Products and quotients are rounded to the nearest thousandth.  Signed    *)
(* zeros are not kept apart.  The Kalman gain 1000 / 1000.1 of the first   *)
(* update rounds to 1.000, so the covariance, and with it the weight the   *)
(* Kalman filter gives to later measurements, differs from the doubles';   *)
(* what the filters read, the order of their steps and their wrapping do   *)
(* not.  temperature and analogValue, which no filter reads, are left out. *)
(*                                                                         *)
(* Objects.  The filters copy the ARRAY they are given ([...data]) but not *)
(* the sample objects in it, and write roll/pitch/yaw into those objects.  *)
(* The model therefore keeps a heap of sample objects; the React state     *)
(* arrays are sequences of object ids.                                     *)
(***************************************************************************)
EXTENDS Integers, Sequences, FiniteSets, TLC

(***************************************************************************)
(* Fixed-point kernel.  The IEEE rules are written as functions on Int, so *)
(* that an argument is evaluated once; fAdd, fMul, ... apply them.         *)
(***************************************************************************)
SCALE == 10 * 100

NaN  == 0 - 2000000000
PInf == 2000000000 + 1
NInf == 0 - 2000000001
\* the value of a property that was never written (JavaScript undefined)
Undef == 0 - 2000000002

IsNaN(a) == a = NaN \/ a = Undef
IsInf(a) == a = PInf \/ a = NInf
\* every number lies strictly between the reserved integers
IsFinite(a) == a > NaN /\ a < PInf

\* n / d for integers, d > 0, rounded to nearest (ties away from zero)
RoundDiv(n, d) == IF n >= 0 THEN (n + d \div 2) \div d
                  ELSE 0 - ((d \div 2 - n) \div d)

Sign(a) == IF a = PInf THEN 1 ELSE IF a = NInf THEN 0 - 1
           ELSE IF a > 0 THEN 1 ELSE IF a < 0 THEN 0 - 1 ELSE 0

NegValue[a \in Int] == IF IsNaN(a) THEN NaN ELSE IF a = PInf THEN NInf
               ELSE IF a = NInf THEN PInf ELSE 0 - a
fNeg(a) == NegValue[a]

AddValues[a \in Int, b \in Int] == IF IsFinite(a) /\ IsFinite(b) THEN a + b
                   ELSE IF IsNaN(a) \/ IsNaN(b) THEN NaN
                   ELSE IF a = PInf THEN (IF b = NInf THEN NaN ELSE PInf)
                   ELSE IF a = NInf THEN (IF b = PInf THEN NaN ELSE NInf)
                   ELSE IF IsInf(b) THEN b
                   ELSE a + b
fAdd(a, b) == AddValues[a, b]

fSub(a, b) == AddValues[a, NegValue[b]]

\* a * b / SCALE rounded to nearest, computed without forming a * b
MulFinite(a, b) == IF a = 0 \/ b = 0 THEN 0
                   ELSE (a \div SCALE) * b + RoundDiv((a % SCALE) * b, SCALE)

MulValues[a \in Int, b \in Int] == IF IsFinite(a) /\ IsFinite(b) THEN MulFinite(a, b)
                   ELSE IF IsNaN(a) \/ IsNaN(b) THEN NaN
                   ELSE IF IsInf(a) \/ IsInf(b)
                        THEN (IF a = 0 \/ b = 0 THEN NaN
                              ELSE IF Sign(a) * Sign(b) > 0 THEN PInf ELSE NInf)
                   ELSE MulFinite(a, b)
fMul(a, b) == MulValues[a, b]

DivValues[a \in Int, b \in Int] == IF IsNaN(a) \/ IsNaN(b) THEN NaN
                   ELSE IF IsInf(a)
                        THEN (IF IsInf(b) THEN NaN
                              ELSE IF Sign(a) * (IF b < 0 THEN 0 - 1 ELSE 1) > 0
                                   THEN PInf ELSE NInf)
                   ELSE IF IsInf(b) THEN 0
                   ELSE IF b = 0
                        THEN (IF a > 0 THEN PInf ELSE IF a < 0 THEN NInf ELSE NaN)
                   ELSE IF b > 0 THEN RoundDiv(a * SCALE, b)
                   ELSE RoundDiv((0 - a) * SCALE, 0 - b)
fDiv(a, b) == DivValues[a, b]

\* comparisons: every comparison with NaN is false
LtValues[a \in Int, b \in Int] == /\ ~IsNaN(a) /\ ~IsNaN(b) /\ a # b
                  /\ \/ a = NInf \/ b = PInf
                     \/ (~IsInf(a) /\ ~IsInf(b) /\ a < b)
fLt(a, b) == LtValues[a, b]
fGt(a, b) == LtValues[b, a]
LeValues[a \in Int, b \in Int] == ~IsNaN(a) /\ ~IsNaN(b) /\ (a = b \/ LtValues[a, b])
fGe(a, b) == LeValues[b, a]
fLe(a, b) == LeValues[a, b]

\* Math.min
MinValues[a \in Int, b \in Int] == IF IsNaN(a) \/ IsNaN(b) THEN NaN ELSE IF LtValues[b, a] THEN b ELSE a
\* faulty variant of fMin: the first argument is not limited
fMinNever(a, b) == a
fMin(a, b) == MinValues[a, b]

\* Math.abs
AbsValue[a \in Int] == IF IsNaN(a) THEN NaN ELSE IF IsInf(a) THEN PInf
               ELSE IF a < 0 THEN 0 - a ELSE a
fAbs(a) == AbsValue[a]

\* floor of the square root of a natural number, by bisection on [lo, hi]
RECURSIVE ISqrtIn(_, _, _)
ISqrtIn(n, lo, hi) ==
    IF lo >= hi THEN lo
    ELSE CHOOSE r \in {IF mid * mid <= n THEN ISqrtIn(n, mid, hi)
                       ELSE ISqrtIn(n, lo, mid - 1) : mid \in {(lo + hi + 1) \div 2}} : TRUE

ISqrt(n) == ISqrtIn(n, 0, IF n < 46340 THEN n ELSE 46340)

\* Math.sqrt
SqrtValue[a \in Int] == IF IsNaN(a) \/ a = NInf THEN NaN
                ELSE IF a = PInf THEN PInf
                ELSE IF a < 0 THEN NaN
                ELSE IF a <= 2000 * SCALE THEN ISqrt(a * SCALE)
                ELSE 100 * ISqrt(a \div 10)
fSqrt(a) == SqrtValue[a]

\* atan(t) in degrees for 0 <= t <= 1 (t and the result in thousandths):
\* 45 t + t (1 - t) (14.02 + 3.80 t), exact at t = 0 and t = 1
AtanUnitDeg(t) ==
    45 * t + RoundDiv(RoundDiv(t * (SCALE - t), SCALE) * (14020 + RoundDiv(3800 * t, SCALE)), SCALE)

\* Math.atan2(y, x) * (180 / Math.PI), for finite y and x
Atan2DegFinite(y, x) ==
    IF y = 0 THEN (IF x < 0 THEN 180 * SCALE ELSE 0)
    ELSE IF x = 0 THEN (IF y > 0 THEN 90 * SCALE ELSE 0 - 90 * SCALE)
    ELSE LET ay == IF y < 0 THEN 0 - y ELSE y
             ax == IF x < 0 THEN 0 - x ELSE x
             base == IF ay <= ax THEN AtanUnitDeg(RoundDiv(ay * SCALE, ax))
                     ELSE 90 * SCALE - AtanUnitDeg(RoundDiv(ax * SCALE, ay))
             pos == IF x > 0 THEN base ELSE 180 * SCALE - base
         IN  IF y > 0 THEN pos ELSE 0 - pos

Atan2DegValues[y \in Int, x \in Int] ==
    IF IsNaN(y) \/ IsNaN(x) THEN NaN
    ELSE IF IsInf(y) /\ IsInf(x)
         THEN Sign(y) * (IF x = PInf THEN 45 * SCALE ELSE 135 * SCALE)
    ELSE IF IsInf(y) THEN Sign(y) * 90 * SCALE
    ELSE IF x = PInf THEN 0
    ELSE IF x = NInf THEN (IF y < 0 THEN 0 - 180 * SCALE ELSE 180 * SCALE)
    ELSE Atan2DegFinite(y, x)
\* Math.atan2(y, x) * (180 / Math.PI)
fAtan2Deg(y, x) == Atan2DegValues[y, x]

\* Math.asin(s) * (180 / Math.PI), used for |s| < 1 only
fAsinDeg(s) ==
    CHOOSE r \in {IF IsNaN(v) THEN NaN
                  ELSE fAtan2Deg(v, fSqrt(SCALE - MulValues[v, v])) : v \in {s}} : TRUE

\* a sequence given as a function, as a tuple whose elements are evaluated
AsTuple(f) == f \o <<>>

(***************************************************************************)
(* Sample objects (SensorDataPoint).  timestamp is in milliseconds, every  *)
(* other number in thousandths.  A field that was never written is Undef.  *)
(***************************************************************************)
RawPoint(ts, rt, ax, ay, az, gx, gy, gz, alt) ==
    [timestamp |-> ts, relativeTime |-> rt,
     accelX |-> ax, accelY |-> ay, accelZ |-> az,
     gyroX |-> gx, gyroY |-> gy, gyroZ |-> gz, altitude |-> alt,
     roll |-> Undef, pitch |-> Undef, yaw |-> Undef,
     compAccelX |-> Undef, compAccelY |-> Undef, compAccelZ |-> Undef]

\* complementary filter gain (default parameter alpha = 0.98)
Alpha == 980
\* upper limit of the time step, Math.min(dt, 0.5)
MaxDt == 500
\* dt of a sample that has no predecessor (0.1 s)
DefaultDt == 100
\* distanceFromCM = 0.030
DistanceFromCM == 30
\* Madgwick gain (default parameter beta = 0.1)
Beta == 100

sensorPositionVector == <<0, 0, DistanceFromCM>>

\* calculateDt(current, previous): seconds between two samples, in thousandths
calculateDt(current, previous, hasPrevious) ==
    IF ~hasPrevious THEN DefaultDt
    ELSE IF current.relativeTime # Undef /\ previous.relativeTime # Undef
         THEN fSub(current.relativeTime, previous.relativeTime)
    ELSE current.timestamp - previous.timestamp

\* faulty variant of DtAt: the time step is taken to the sample that follows
DtAhead(result, i) ==
    IF i < Len(result) THEN calculateDt(result[i + 1], result[i], TRUE) ELSE DefaultDt

\* dt of sample i of result (the sample before it is result[i - 1])
DtAt(result, i) ==
    calculateDt(result[i], IF i > 1 THEN result[i - 1] ELSE result[i], i > 1)

\* faulty variant of WrapDown: the angle is not brought down
WrapDownNever(a) == a

\* while (a > 180) a -= 360.  For a = +Infinity the program's loop does not end.
RECURSIVE WrapDown(_)
WrapDown(a) == IF IsInf(a) THEN a
               ELSE IF LtValues[180 * SCALE, a] THEN WrapDown(a - 360 * SCALE) ELSE a

\* while (a < -180) a += 360
RECURSIVE WrapUp(_)
WrapUp(a) == IF IsInf(a) THEN a
             ELSE IF LtValues[a, 0 - 180 * SCALE] THEN WrapUp(a + 360 * SCALE) ELSE a

WrapAngle(a) == CHOOSE r \in {WrapUp(w) : w \in {WrapDown(v) : v \in {a}}} : TRUE

\* faulty variant of AccelRoll: the arguments of atan2 are exchanged
AccelRollExchanged(ax, ay, az) == fAtan2Deg(az, ay)

\* Math.atan2(y, z) * (180 / Math.PI)
AccelRoll(ax, ay, az) == fAtan2Deg(ay, az)
\* Math.atan2(-x, Math.sqrt(y * y + z * z)) * (180 / Math.PI)
AccelPitch(ax, ay, az) ==
    fAtan2Deg(fNeg(ax), fSqrt(fAdd(fMul(ay, ay), fMul(az, az))))

\* omega x r, then a - (omega x (omega x r) + alpha x r)
CompensateWith(accel, gyro, angAccel, r, wxr) ==
    [x |-> fSub(accel[1], fAdd(fSub(fMul(gyro[2], wxr[3]), fMul(gyro[3], wxr[2])),
                               fSub(fMul(angAccel[2], r[3]), fMul(angAccel[3], r[2])))),
     y |-> fSub(accel[2], fAdd(fSub(fMul(gyro[3], wxr[1]), fMul(gyro[1], wxr[3])),
                               fSub(fMul(angAccel[3], r[1]), fMul(angAccel[1], r[3])))),
     z |-> fSub(accel[3], fAdd(fSub(fMul(gyro[1], wxr[2]), fMul(gyro[2], wxr[1])),
                               fSub(fMul(angAccel[1], r[2]), fMul(angAccel[2], r[1]))))]

\* faulty variant of compensateAcceleration: the tangential term is left out
compensateAccelerationCentripetal(accelX, accelY, accelZ, gyroX, gyroY, gyroZ, angAccelX, angAccelY, angAccelZ, sensorPosition) ==
    CompensateWith(<<accelX, accelY, accelZ>>, <<gyroX, gyroY, gyroZ>>, <<0, 0, 0>>,
                   sensorPosition,
                   <<fSub(fMul(gyroY, sensorPosition[3]), fMul(gyroZ, sensorPosition[2])),
                     fSub(fMul(gyroZ, sensorPosition[1]), fMul(gyroX, sensorPosition[3])),
                     fSub(fMul(gyroX, sensorPosition[2]), fMul(gyroY, sensorPosition[1]))>>)

compensateAcceleration(accelX, accelY, accelZ, gyroX, gyroY, gyroZ, angAccelX, angAccelY, angAccelZ, sensorPosition) ==
    CHOOSE out \in
        {CompensateWith(accel, gyro, angAccel, sensorPosition,
                        <<fSub(fMul(gyro[2], sensorPosition[3]), fMul(gyro[3], sensorPosition[2])),
                          fSub(fMul(gyro[3], sensorPosition[1]), fMul(gyro[1], sensorPosition[3])),
                          fSub(fMul(gyro[1], sensorPosition[2]), fMul(gyro[2], sensorPosition[1]))>>) :
            accel \in {<<accelX, accelY, accelZ>>},
            gyro \in {<<gyroX, gyroY, gyroZ>>},
            angAccel \in {<<angAccelX, angAccelY, angAccelZ>>}} : TRUE

(***************************************************************************)
(* Complementary filter with centre-of-mass compensation.  acc holds the   *)
(* result array and the running state st (roll, pitch, yaw, prevGyro)      *)
(* before sample i (1-based).                                              *)
(***************************************************************************)
\* the body of the loop after dt and the compensated acceleration are known
ImprovedComplementaryUpdate(acc, i, point, dt, c, accelRoll, accelPitch, limitedDt) ==
    CHOOSE out \in
        {[result |-> [acc.result EXCEPT ![i] =
                         [point EXCEPT !.roll = roll, !.pitch = pitch, !.yaw = yaw,
                                       !.compAccelX = c.x, !.compAccelY = c.y,
                                       !.compAccelZ = c.z]],
          st |-> [roll |-> roll, pitch |-> pitch, yaw |-> yaw,
                  prevGyroX |-> point.gyroX, prevGyroY |-> point.gyroY,
                  prevGyroZ |-> point.gyroZ]] :
            roll \in {IF i > 1
                      THEN fAdd(fMul(Alpha, fAdd(acc.st.roll, fMul(point.gyroX, limitedDt))),
                                fMul(SCALE - Alpha, accelRoll))
                      ELSE acc.st.roll},
            pitch \in {IF i > 1
                       THEN fAdd(fMul(Alpha, fAdd(acc.st.pitch, fMul(point.gyroY, limitedDt))),
                                 fMul(SCALE - Alpha, accelPitch))
                       ELSE acc.st.pitch},
            yaw \in {IF i > 1
                     THEN WrapAngle(fAdd(acc.st.yaw, fMul(point.gyroZ, limitedDt)))
                     ELSE acc.st.yaw}} : TRUE

ImprovedComplementaryCompensated(acc, i, point, dt, c) ==
    CHOOSE out \in
        {ImprovedComplementaryUpdate(acc, i, point, dt, c, accelRoll, accelPitch, limitedDt) :
            accelRoll \in {AccelRoll(c.x, c.y, c.z)},
            accelPitch \in {AccelPitch(c.x, c.y, c.z)},
            limitedDt \in {fMin(dt, MaxDt)}} : TRUE

ImprovedComplementaryWithDt(acc, i, point, dt) ==
    CHOOSE out \in
        {ImprovedComplementaryCompensated(acc, i, point, dt, c) :
            c \in {compensateAcceleration(
                       point.accelX, point.accelY, point.accelZ,
                       point.gyroX, point.gyroY, point.gyroZ,
                       fDiv(fSub(point.gyroX, acc.st.prevGyroX), dt),
                       fDiv(fSub(point.gyroY, acc.st.prevGyroY), dt),
                       fDiv(fSub(point.gyroZ, acc.st.prevGyroZ), dt),
                       sensorPositionVector)}} : TRUE

\* one pass of the loop body, for sample i
ImprovedComplementaryStep(acc, i) ==
    CHOOSE out \in
        {ImprovedComplementaryWithDt(acc, i, point, dt) :
            point \in {acc.result[i]}, dt \in {DtAt(acc.result, i)}} : TRUE

\* for (let i = lo; i <= hi; i++), split in halves to keep the evaluation shallow
RECURSIVE ImprovedComplementaryRange(_, _, _)
ImprovedComplementaryRange(acc, lo, hi) ==
    IF lo > hi THEN acc
    ELSE IF lo = hi THEN ImprovedComplementaryStep(acc, lo)
    ELSE CHOOSE out \in
            {CHOOSE r \in {ImprovedComplementaryRange(a, mid + 1, hi) :
                              a \in {ImprovedComplementaryRange(acc, lo, mid)}} : TRUE :
                mid \in {(lo + hi) \div 2}} : TRUE

\* faulty variant of ImprovedComplementaryInit: the run resumes from the yaw
\* that an earlier run left on the first sample
ImprovedComplementaryResume(data, initialAccel) ==
    [result |-> data,
     st |-> [roll |-> AccelRoll(initialAccel.x, initialAccel.y, initialAccel.z),
             pitch |-> AccelPitch(initialAccel.x, initialAccel.y, initialAccel.z),
             yaw |-> IF data[Len(data)].yaw = Undef THEN 0 ELSE data[Len(data)].yaw,
             prevGyroX |-> data[1].gyroX, prevGyroY |-> data[1].gyroY,
             prevGyroZ |-> data[1].gyroZ]]

ImprovedComplementaryInit(data, initialAccel) ==
    [result |-> data,
     st |-> [roll |-> AccelRoll(initialAccel.x, initialAccel.y, initialAccel.z),
             pitch |-> AccelPitch(initialAccel.x, initialAccel.y, initialAccel.z),
             yaw |-> 0,
             prevGyroX |-> data[1].gyroX, prevGyroY |-> data[1].gyroY,
             prevGyroZ |-> data[1].gyroZ]]

ImprovedComplementaryOf(data) ==
    IF Len(data) = 0 THEN <<>>
    ELSE CHOOSE out \in
            {ImprovedComplementaryRange(acc, 1, Len(data)).result :
                acc \in {ImprovedComplementaryInit(data,
                            compensateAcceleration(data[1].accelX, data[1].accelY,
                                                   data[1].accelZ, 0, 0, 0, 0, 0, 0,
                                                   sensorPositionVector))}} : TRUE

applyImprovedComplementaryFilter(data) ==
    CHOOSE out \in {ImprovedComplementaryOf(d) : d \in {data}} : TRUE

(***************************************************************************)
(* Linear algebra of the Kalman filter: matrices are sequences of rows.    *)
(***************************************************************************)
\* result[i] += A[i][j] * v[j] for j = 1..n, starting from 0
RECURSIVE DotRowVector(_, _, _)
DotRowVector(row, v, n) ==
    IF n = 0 THEN 0
    ELSE AddValues[DotRowVector(row, v, n - 1), MulValues[row[n], v[n]]]

MatrixVectorValues(A, v) ==
    AsTuple([i \in 1..Len(A) |-> DotRowVector(A[i], v, Len(v))])
multiplyMatrixVector(A, v) ==
    CHOOSE r \in {MatrixVectorValues(a, w) : a \in {A}, w \in {v}} : TRUE

\* result[i][j] += A[i][k] * B[k][j] for k = 1..n, starting from 0
RECURSIVE DotRowColumn(_, _, _, _)
DotRowColumn(row, B, j, n) ==
    IF n = 0 THEN 0
    ELSE AddValues[DotRowColumn(row, B, j, n - 1), MulValues[row[n], B[n][j]]]

MatrixProductValues(A, B) ==
    AsTuple([i \in 1..Len(A) |->
        AsTuple([j \in 1..Len(B[1]) |-> DotRowColumn(A[i], B, j, Len(A[1]))])])
multiplyMatrices(A, B) ==
    CHOOSE r \in {MatrixProductValues(a, b) : a \in {A}, b \in {B}} : TRUE

transposeMatrix(A) ==
    CHOOSE r \in {AsTuple([j \in 1..Len(a[1]) |-> AsTuple([i \in 1..Len(a) |-> a[i][j]])]) :
                     a \in {A}} : TRUE

addMatrices(A, B) ==
    CHOOSE r \in {AsTuple([i \in 1..Len(a) |->
                     AsTuple([j \in 1..Len(a[1]) |-> AddValues[a[i][j], b[i][j]]])]) :
                     a \in {A}, b \in {B}} : TRUE

subtractMatrices(A, B) ==
    CHOOSE r \in {AsTuple([i \in 1..Len(a) |->
                     AsTuple([j \in 1..Len(a[1]) |-> AddValues[a[i][j], NegValue[b[i][j]]]])]) :
                     a \in {A}, b \in {B}} : TRUE

\* the inverse of the diagonal only: result[i][i] = 1.0 / A[i][i]
invertMatrix(A) ==
    CHOOSE r \in {AsTuple([i \in 1..Len(a) |->
                     AsTuple([j \in 1..Len(a[1]) |->
                         IF i = j THEN DivValues[SCALE, a[i][i]] ELSE 0])]) :
                     a \in {A}} : TRUE

\* processNoise = 0.01
ProcessNoise == 10
\* measurementNoiseAccel = 0.1
MeasurementNoiseAccel == 100
\* measurementNoiseGyro = 0.01
MeasurementNoiseGyro == 10
\* initial covariance: 1000 for the angles, 100 for the rates
InitialAngleVariance == 1000
InitialRateVariance == 100

DiagonalMatrix(d) ==
    AsTuple([i \in 1..6 |-> AsTuple([j \in 1..6 |-> IF i = j THEN d[i] ELSE 0])])

KalmanIdentity == DiagonalMatrix([i \in 1..6 |-> SCALE])
KalmanP0 == DiagonalMatrix([i \in 1..6 |-> IF i <= 3 THEN InitialAngleVariance * SCALE
                                             ELSE InitialRateVariance * SCALE])
KalmanQ == DiagonalMatrix([i \in 1..6 |-> ProcessNoise])
KalmanR == DiagonalMatrix([i \in 1..6 |-> IF i <= 3 THEN MeasurementNoiseAccel
                                            ELSE MeasurementNoiseGyro])
KalmanH == KalmanIdentity

\* F: the identity with F[0][3] = F[1][4] = F[2][5] = limitedDt
KalmanF(limitedDt) ==
    AsTuple([r \in 1..6 |-> AsTuple([c \in 1..6 |->
        IF r = c THEN SCALE ELSE IF r <= 3 /\ c = r + 3 THEN limitedDt ELSE 0])])

\* 3. update, with the gain K known
KalmanUpdate(acc, i, point, x_pred, P_pred, y, K, I) ==
    CHOOSE out \in
        {[result |-> [acc.result EXCEPT ![i] =
                         [point EXCEPT !.roll = x[1], !.pitch = x[2], !.yaw = x[3]]],
          x |-> x,
          P |-> multiplyMatrices(subtractMatrices(I, multiplyMatrices(K, KalmanH)), P_pred)] :
            x \in {<<WrapAngle(fAdd(x_pred[1], Ky[1])), WrapAngle(fAdd(x_pred[2], Ky[2])),
                     WrapAngle(fAdd(x_pred[3], Ky[3])), fAdd(x_pred[4], Ky[4]),
                     fAdd(x_pred[5], Ky[5]), fAdd(x_pred[6], Ky[6])>> :
                   Ky \in {multiplyMatrixVector(K, y)}}} : TRUE

\* 2. measurement z, innovation y, S, S^-1 and the gain K
KalmanMeasure(acc, i, point, limitedDt, x_pred, P_pred, HT) ==
    CHOOSE out \in
        {KalmanUpdate(acc, i, point, x_pred, P_pred, y, K, KalmanIdentity) :
            y \in {[idx \in 1..6 |-> fSub(z[idx], Hx[idx])] :
                      z \in {<<AccelRoll(point.accelX, point.accelY, point.accelZ),
                               AccelPitch(point.accelX, point.accelY, point.accelZ),
                               fAdd(x_pred[3], fMul(point.gyroZ, limitedDt)),
                               point.gyroX, point.gyroY, point.gyroZ>>},
                      Hx \in {multiplyMatrixVector(KalmanH, x_pred)}},
            K \in {multiplyMatrices(
                       multiplyMatrices(P_pred, HT),
                       invertMatrix(addMatrices(
                           multiplyMatrices(multiplyMatrices(KalmanH, P_pred), HT),
                           KalmanR)))}} : TRUE

\* 1. prediction x = F x, P = F P F^T + Q
KalmanPredict(acc, i, point, limitedDt, F) ==
    CHOOSE out \in
        {KalmanMeasure(acc, i, point, limitedDt, x_pred, P_pred, HT) :
            x_pred \in {multiplyMatrixVector(F, acc.x)},
            P_pred \in {addMatrices(multiplyMatrices(multiplyMatrices(F, acc.P),
                                                     transposeMatrix(F)), KalmanQ)},
            HT \in {transposeMatrix(KalmanH)}} : TRUE

\* one pass of the main loop: acc holds result, state x and covariance P; i >= 2
KalmanStep(acc, i) ==
    CHOOSE out \in
        {CHOOSE r \in {KalmanPredict(acc, i, point, limitedDt, F) :
                          F \in {KalmanF(limitedDt)}} : TRUE :
            point \in {acc.result[i]},
            limitedDt \in {fMin(DtAt(acc.result, i), MaxDt)}} : TRUE

\* for (let i = lo; i <= hi; i++), split in halves to keep the evaluation shallow
RECURSIVE KalmanRange(_, _, _)
KalmanRange(acc, lo, hi) ==
    IF lo > hi THEN acc
    ELSE IF lo = hi THEN KalmanStep(acc, lo)
    ELSE CHOOSE out \in
            {CHOOSE r \in {KalmanRange(a, mid + 1, hi) :
                              a \in {KalmanRange(acc, lo, mid)}} : TRUE :
                mid \in {(lo + hi) \div 2}} : TRUE

KalmanInit(data, x0) ==
    [result |-> [data EXCEPT ![1] = [data[1] EXCEPT !.roll = x0[1], !.pitch = x0[2],
                                                    !.yaw = x0[3]]],
     x |-> x0, P |-> KalmanP0]

KalmanOf(data) ==
    IF Len(data) = 0 THEN <<>>
    ELSE CHOOSE out \in
            {KalmanRange(acc, 2, Len(data)).result :
                acc \in {KalmanInit(data, x0) :
                    x0 \in {<<AccelRoll(data[1].accelX, data[1].accelY, data[1].accelZ),
                              AccelPitch(data[1].accelX, data[1].accelY, data[1].accelZ),
                              0, data[1].gyroX, data[1].gyroY, data[1].gyroZ>>}}} : TRUE

\* faulty variant of applyKalmanFilter: the result is in reverse order
applyKalmanFilterReversed(data) ==
    CHOOSE out \in {AsTuple([i \in 1..Len(r) |-> r[Len(r) + 1 - i]]) :
                        r \in {KalmanOf(data)}} : TRUE

applyKalmanFilter(data) ==
    CHOOSE out \in {KalmanOf(d) : d \in {data}} : TRUE

(***************************************************************************)
(* Madgwick filter: acc holds the result array and the quaternion          *)
(* q = <<w, x, y, z>> before sample i.                                     *)
(***************************************************************************)
\* degrees * (Math.PI / 180)
degToRad(degrees) ==
    CHOOSE r \in {IF ~IsFinite(d) THEN d ELSE RoundDiv(d * 349, 19996) : d \in {degrees}} : TRUE

\* the gradient <<s0, s1, s2, s3>> of the objective function
MadgwickGradient(q, a, qq) ==
    <<fSub(fAdd(fAdd(fMul(fMul(4 * SCALE, q[1]), qq[3]), fMul(fMul(2 * SCALE, q[3]), a[1])),
                fMul(fMul(4 * SCALE, q[1]), qq[2])),
           fMul(fMul(2 * SCALE, q[2]), a[2])),
      fAdd(fAdd(fAdd(fSub(fSub(fAdd(fSub(fMul(fMul(4 * SCALE, q[2]), qq[4]),
                                         fMul(fMul(2 * SCALE, q[4]), a[1])),
                                    fMul(fMul(4 * SCALE, qq[1]), q[2])),
                               fMul(fMul(2 * SCALE, q[1]), a[2])),
                          fMul(4 * SCALE, q[2])),
                     fMul(fMul(8 * SCALE, q[2]), qq[2])),
                fMul(fMul(8 * SCALE, q[2]), qq[3])),
           fMul(fMul(4 * SCALE, q[2]), a[3])),
      fAdd(fAdd(fAdd(fSub(fSub(fAdd(fAdd(fMul(fMul(4 * SCALE, qq[1]), q[3]),
                                         fMul(fMul(2 * SCALE, q[1]), a[1])),
                                    fMul(fMul(4 * SCALE, q[3]), qq[4])),
                               fMul(fMul(2 * SCALE, q[4]), a[2])),
                          fMul(4 * SCALE, q[3])),
                     fMul(fMul(8 * SCALE, q[3]), qq[2])),
                fMul(fMul(8 * SCALE, q[3]), qq[3])),
           fMul(fMul(4 * SCALE, q[3]), a[3])),
      fSub(fAdd(fSub(fMul(fMul(4 * SCALE, qq[2]), q[4]), fMul(fMul(2 * SCALE, q[2]), a[1])),
                fMul(fMul(4 * SCALE, qq[3]), q[4])),
           fMul(fMul(2 * SCALE, q[3]), a[2]))>>

\* 1 / sqrt(v0^2 + v1^2 + v2^2 + v3^2)
RecipNorm4(v) ==
    fDiv(SCALE, fSqrt(fAdd(fAdd(fAdd(fMul(v[1], v[1]), fMul(v[2], v[2])),
                                fMul(v[3], v[3])), fMul(v[4], v[4]))))

\* quaternion to Euler angles, and the write to result[i]
MadgwickAngles(acc, i, point, n) ==
    CHOOSE out \in
        {[result |-> [acc.result EXCEPT ![i] =
                         [point EXCEPT !.roll = roll, !.pitch = pitch, !.yaw = yaw]],
          q |-> n] :
            roll \in {fAtan2Deg(fMul(2 * SCALE, fAdd(fMul(n[1], n[2]), fMul(n[3], n[4]))),
                                fSub(SCALE, fMul(2 * SCALE, fAdd(fMul(n[2], n[2]),
                                                                 fMul(n[3], n[3])))))},
            pitch \in {IF fGe(fAbs(sinp), SCALE) THEN Sign(sinp) * 90 * SCALE
                       ELSE fAsinDeg(sinp) :
                          sinp \in {fMul(2 * SCALE, fSub(fMul(n[1], n[3]), fMul(n[4], n[2])))}},
            yaw \in {WrapAngle(
                        fAtan2Deg(fMul(2 * SCALE, fAdd(fMul(n[1], n[4]), fMul(n[2], n[3]))),
                                  fSub(SCALE, fMul(2 * SCALE, fAdd(fMul(n[3], n[3]),
                                                                   fMul(n[4], n[4]))))))}} : TRUE

\* q += qDot * limitedDt, then the normalisation of q
MadgwickIntegrate(acc, i, point, limitedDt, q, qDot) ==
    CHOOSE out \in
        {CHOOSE o \in {MadgwickAngles(acc, i, point,
                          <<fMul(qi[1], recipNorm2), fMul(qi[2], recipNorm2),
                            fMul(qi[3], recipNorm2), fMul(qi[4], recipNorm2)>>) :
                          recipNorm2 \in {RecipNorm4(qi)}} : TRUE :
            qi \in {<<fAdd(q[1], fMul(qDot[1], limitedDt)), fAdd(q[2], fMul(qDot[2], limitedDt)),
                      fAdd(q[3], fMul(qDot[3], limitedDt)), fAdd(q[4], fMul(qDot[4], limitedDt))>>}} : TRUE

\* qDot = 0.5 * q (x) [0, gx, gy, gz] - beta * normalised gradient
MadgwickDerivative(acc, i, point, limitedDt, q, g, s, recipNorm) ==
    CHOOSE out \in
        {MadgwickIntegrate(acc, i, point, limitedDt, q, qDot) :
            qDot \in {<<fSub(fMul(SCALE \div 2,
                                  fSub(fSub(fMul(fNeg(q[2]), g[1]), fMul(q[3], g[2])),
                                       fMul(q[4], g[3]))),
                             fMul(Beta, fMul(s[1], recipNorm))),
                        fSub(fMul(SCALE \div 2,
                                  fSub(fAdd(fMul(q[1], g[1]), fMul(q[3], g[3])),
                                       fMul(q[4], g[2]))),
                             fMul(Beta, fMul(s[2], recipNorm))),
                        fSub(fMul(SCALE \div 2,
                                  fAdd(fSub(fMul(q[1], g[2]), fMul(q[2], g[3])),
                                       fMul(q[4], g[1]))),
                             fMul(Beta, fMul(s[3], recipNorm))),
                        fSub(fMul(SCALE \div 2,
                                  fSub(fAdd(fMul(q[1], g[3]), fMul(q[2], g[2])),
                                       fMul(q[3], g[1]))),
                             fMul(Beta, fMul(s[4], recipNorm)))>>}} : TRUE

\* the accelerometer normalised by its norm, and the gradient
MadgwickNormalised(acc, i, point, limitedDt, q, g, norm) ==
    CHOOSE out \in
        {CHOOSE o \in {MadgwickDerivative(acc, i, point, limitedDt, q, g, s, recipNorm) :
                          recipNorm \in {RecipNorm4(s)}} : TRUE :
            s \in {MadgwickGradient(q, a, qq) :
                      a \in {<<fDiv(point.accelX, norm), fDiv(point.accelY, norm),
                               fDiv(point.accelZ, norm)>>},
                      qq \in {<<fMul(q[1], q[1]), fMul(q[2], q[2]),
                                fMul(q[3], q[3]), fMul(q[4], q[4])>>}}} : TRUE

\* one pass of the loop body, for sample i
MadgwickStep(acc, i) ==
    CHOOSE out \in
        {MadgwickNormalised(acc, i, point, limitedDt, acc.q, g, norm) :
            point \in {acc.result[i]},
            limitedDt \in {fMin(DtAt(acc.result, i), MaxDt)},
            g \in {<<degToRad(acc.result[i].gyroX), degToRad(acc.result[i].gyroY),
                     degToRad(acc.result[i].gyroZ)>>},
            norm \in {fSqrt(fAdd(fAdd(fMul(acc.result[i].accelX, acc.result[i].accelX),
                                      fMul(acc.result[i].accelY, acc.result[i].accelY)),
                                 fMul(acc.result[i].accelZ, acc.result[i].accelZ)))}} : TRUE

\* for (let i = lo; i <= hi; i++), split in halves to keep the evaluation shallow
RECURSIVE MadgwickRange(_, _, _)
MadgwickRange(acc, lo, hi) ==
    IF lo > hi THEN acc
    ELSE IF lo = hi THEN MadgwickStep(acc, lo)
    ELSE CHOOSE out \in
            {CHOOSE r \in {MadgwickRange(a, mid + 1, hi) :
                              a \in {MadgwickRange(acc, lo, mid)}} : TRUE :
                mid \in {(lo + hi) \div 2}} : TRUE

MadgwickOf(data) ==
    IF Len(data) = 0 THEN <<>>
    ELSE CHOOSE out \in
            {MadgwickRange(acc, 1, Len(data)).result :
                acc \in {[result |-> data, q |-> <<SCALE, 0, 0, 0>>]}} : TRUE

applyMadgwickFilter(data) ==
    CHOOSE out \in {MadgwickOf(d) : d \in {data}} : TRUE

\* the filter named by filterType
applySelectedFilter(data, filterType) ==
    CASE filterType = "complementary" -> applyImprovedComplementaryFilter(data)
      [] filterType = "kalman" -> applyKalmanFilter(data)
      [] filterType = "madgwick" -> applyMadgwickFilter(data)
      [] OTHER -> applyImprovedComplementaryFilter(data)

(***************************************************************************)
(* The component TelemetryVisualization.                                   *)
(*                                                                         *)
(* heap          the sample objects ever created, by object id             *)
(* data          useState data: the raw buffer, as object ids              *)
(* filteredData  useState filteredData: the fused output, as object ids    *)
(* currentPoint  useState currentPoint: an object id, or NoPoint for null  *)
(* filterType, isRealtime, firstFetchTimestamp, isLoading   the useState   *)
(*               values; while isLoading the component renders no controls *)
(* ws            the open WebSocket with the values its handlers closed    *)
(*               over when connectWebSocket() created them                 *)
(* pending       state updates queued by setData / setFilteredData /       *)
(*               setCurrentPoint and not rendered yet, in queue order      *)
(* loading       file loads whose await has not returned yet, each with    *)
(*               the filterType its processData closed over                *)
(* now           Date.now(), in milliseconds                               *)
(* pushed, lastApplied   history: the samples received in this live        *)
(*               session, and the last update a render applied             *)
(*                                                                         *)
(* A React state setter only queues an update; Render applies the queue.   *)
(* A click or mouse handler is rendered at once, together with what is     *)
(* queued.  Whether the render of a filterType change also applies the     *)
(* queued updates depends on the React version: both happen                *)
(* (SetFilterType's parameter flush).                                      *)
(***************************************************************************)
VARIABLES heap, data, filteredData, currentPoint, filterType, isRealtime,
          firstFetchTimestamp, isLoading, ws, pending, loading, now,
          pushed, lastApplied, poll

vars == <<heap, data, filteredData, currentPoint, filterType, isRealtime,
          firstFetchTimestamp, isLoading, ws, pending, loading, now,
          pushed, lastApplied, poll>>

\* type FilterType = 'complementary' | 'kalman' | 'madgwick'
FilterTypes == {"complementary", "kalman", "madgwick"}

\* newData.length > 300, const maxPoints = 300
MaxPoints == 300
\* useState<SensorDataPoint | null>(null)
NoPoint == 0

\* the objects of an array of ids
Objects(h, ids) == AsTuple([i \in 1..Len(ids) |-> h[ids[i]]])

\* applySelectedFilter(array, filterType) on the objects of the heap: the filter
\* copies the array, not the objects, so its writes land in the shared objects
FilterObjects(h, ids, ft) ==
    CHOOSE r \in
        {AsTuple([o \in 1..Len(h) |->
            IF \E i \in 1..Len(ids) : ids[i] = o
            THEN out[CHOOSE i \in 1..Len(ids) : ids[i] = o] ELSE h[o]]) :
            out \in {applySelectedFilter(Objects(h, ids), ft)}} : TRUE

\* faulty variant of LastPoints: array.slice(0, 300)
FirstPoints(array) ==
    IF Len(array) > MaxPoints THEN SubSeq(array, 1, MaxPoints) ELSE array

\* array.slice(array.length - 300) when array.length > 300
LastPoints(array) ==
    IF Len(array) > MaxPoints
    THEN SubSeq(array, Len(array) - MaxPoints + 1, Len(array))
    ELSE array

\* the file of an update that no load queued
NoFile == 0

\* the three updater functions queued by ws.onmessage for newDataPoint
PushUpdate(point, ft, selected) ==
    [kind |-> "push", point |-> point, filterType |-> ft, selected |-> selected,
     value |-> <<>>, current |-> NoPoint,
     file |-> NoFile]
\* setFilteredData(filteredResult) and setCurrentPoint(filteredResult[index])
FilteredUpdate(value, current, ft) ==
    [kind |-> "filtered", point |-> NoPoint, filterType |-> ft, selected |-> ft,
     value |-> value, current |-> current,
     file |-> NoFile]
\* faulty variant of BatchUpdate: the first row of the file is dropped
BatchUpdateTail(value, ft, selected) ==
    [kind |-> "batch", point |-> NoPoint, filterType |-> ft, selected |-> selected,
     value |-> Tail(value), current |-> NoPoint,
     file |-> NoFile]
\* setData(parsedData), setFilteredData(filteredResult),
\* setCurrentPoint(filteredResult[0]), setIsLoading(false)
BatchUpdate(value, ft, selected) ==
    [kind |-> "batch", point |-> NoPoint, filterType |-> ft, selected |-> selected,
     value |-> value, current |-> NoPoint,
     file |-> NoFile]
\* setIsLoading(false) of a catch block
IdleUpdate ==
    [kind |-> "idle", point |-> NoPoint, filterType |-> "complementary",
     selected |-> "complementary", value |-> <<>>, current |-> NoPoint,
     file |-> NoFile]
\* setCurrentPoint(payload) of handleMouseMove
MoveUpdate(point) ==
    [kind |-> "move", point |-> point, filterType |-> "complementary",
     selected |-> "complementary", value |-> <<>>, current |-> point,
     file |-> NoFile]
\* setData([]) and setFilteredData([]) of startRealtimeData
ResetUpdate ==
    [kind |-> "reset", point |-> NoPoint, filterType |-> "complementary",
     selected |-> "complementary", value |-> <<>>, current |-> NoPoint,
     file |-> NoFile]
NoUpdate ==
    [kind |-> "none", point |-> NoPoint, filterType |-> "complementary",
     selected |-> "complementary", value |-> <<>>, current |-> NoPoint,
     file |-> NoFile]

\* what the history keeps of an applied update
Applied(u) == [kind |-> u.kind, point |-> u.point, filterType |-> u.filterType,
               selected |-> u.selected, file |-> u.file]

\* the rendered state: the heap, the three useState values, and the history
Store == [heap |-> heap, data |-> data, filteredData |-> filteredData,
          currentPoint |-> currentPoint, isLoading |-> isLoading,
          lastApplied |-> lastApplied]

\* faulty variant of ApplyPush: the current point is the last point of the
\* previous fused array
ApplyPushStale(st, u, updatedData) ==
    [heap |-> FilterObjects(st.heap, updatedData, u.filterType),
     data |-> LastPoints(Append(st.data, u.point)),
     filteredData |-> updatedData,
     currentPoint |-> IF Len(st.filteredData) > 0
                      THEN st.filteredData[Len(st.filteredData)] ELSE u.point,
     isLoading |-> st.isLoading,
     lastApplied |-> Applied(u)]

\* the updaters of one ws message, run by a render on the previous state
ApplyPush(st, u, updatedData) ==
    [heap |-> FilterObjects(st.heap, updatedData, u.filterType),
     data |-> LastPoints(Append(st.data, u.point)),
     filteredData |-> updatedData,
     currentPoint |-> u.point,
     isLoading |-> st.isLoading,
     lastApplied |-> Applied(u)]

\* one queued update applied to the state st
ApplyUpdate(st, u) ==
    CASE u.kind = "push" ->
            CHOOSE r \in {ApplyPush(st, u, updatedData) :
                updatedData \in {LastPoints(Append(st.filteredData, u.point))}} : TRUE
      [] u.kind = "filtered" ->
            [st EXCEPT !.filteredData = u.value,
                       !.currentPoint = IF u.current # NoPoint THEN u.current ELSE @,
                       !.lastApplied = Applied(u)]
      [] u.kind = "batch" ->
            [st EXCEPT !.data = u.value, !.filteredData = u.value,
                       !.currentPoint = IF Len(u.value) > 0 THEN u.value[1] ELSE @,
                       !.isLoading = FALSE,
                       !.lastApplied = Applied(u)]
      [] u.kind = "idle" ->
            [st EXCEPT !.isLoading = FALSE, !.lastApplied = Applied(u)]
      [] u.kind = "move" ->
            [st EXCEPT !.currentPoint = u.point, !.lastApplied = Applied(u)]

\* a render: the queued updates applied in queue order
RECURSIVE ApplyAll(_, _)
ApplyAll(st, queue) ==
    IF Len(queue) = 0 THEN st
    ELSE CHOOSE r \in {ApplyAll(next, Tail(queue)) :
                          next \in {ApplyUpdate(st, Head(queue))}} : TRUE

Commit(st) ==
    /\ heap' = st.heap
    /\ data' = st.data
    /\ filteredData' = st.filteredData
    /\ currentPoint' = st.currentPoint
    /\ isLoading' = st.isLoading
    /\ lastApplied' = st.lastApplied

\* the polling of the earlier variants of the component: the state
\* realtimeInterval (0 for null), the realtimeInterval that the registered
\* cleanup of the effect on [realtimeInterval] closed over, the timers that
\* setInterval has made and clearInterval has not cleared, the calls of
\* fetchRealtimeData that are waiting for the API, and the next timer id
NoPoll == [interval |-> 0, effect |-> 0, timers |-> {}, fetches |-> {}, nextId |-> 1]

NoSocket == [open |-> FALSE, filterType |-> "complementary",
             firstFetchTimestamp |-> 0, isRealtime |-> FALSE]

(***************************************************************************)
(* Inputs: what the device sends, how much time passes between messages,   *)
(* and the files that can be loaded.                                       *)
(***************************************************************************)
\* most objects the heap holds in Spec
MaxObjects == 2
\* most updates queued between two renders
MaxPending == 2

Reading(ax, ay, az, gx, gy, gz) ==
    [accelX |-> ax, accelY |-> ay, accelZ |-> az,
     gyroX |-> gx, gyroY |-> gy, gyroZ |-> gz, altitude |-> 0]

\* at rest and level; tilted and turning
RestReading == Reading(0, 0, 0 - SCALE, 0, 0, 0)
TiltReading == Reading(500, 300, 0 - SCALE, 15 * SCALE, 10 * SCALE, 25 * SCALE)
LiveReadings == {TiltReading}

\* milliseconds between two messages
Delays == {100}

Row(ts, reading) == [timestamp |-> ts, reading |-> reading]
\* the files that can be loaded: /paste.txt, recorded with the Z axis upside down
Files == << <<Row(1000, Reading(0, 0, SCALE, 0, 0, 0)),
              Row(1100, Reading(500, 300, SCALE, 15 * SCALE, 10 * SCALE, 25 * SCALE))>>,
            <<Row(2000, Reading(300, 0, 0 - SCALE, 0, 0, 0))>> >>
DefaultFile == 1

\* one tab-separated field of a text file: a decimal number written with a comma
\* or a point, a text that does not begin with a number, or nothing at all
Number(negative, whole, thousandths, comma) ==
    [kind |-> "number", negative |-> negative, whole |-> whole,
     thousandths |-> thousandths, comma |-> comma, name |-> ""]
Word(name) ==
    [kind |-> "word", negative |-> FALSE, whole |-> 0, thousandths |-> 0,
     comma |-> FALSE, name |-> name]
Blank ==
    [kind |-> "blank", negative |-> FALSE, whole |-> 0, thousandths |-> 0,
     comma |-> FALSE, name |-> ""]

\* the columns of a recording, in the order of /paste.txt
HeaderNames == <<"timestamp", "accelX", "accelY", "accelZ",
                 "gyroX", "gyroY", "gyroZ", "altitude">>
HeaderLine == AsTuple([i \in 1..Len(HeaderNames) |-> Word(HeaderNames[i])])
BlankLine == <<Blank>>

\* a value as the logger writes it: three decimals after a comma
Written(v) ==
    Number(v < 0, (IF v < 0 THEN 0 - v ELSE v) \div SCALE,
           (IF v < 0 THEN 0 - v ELSE v) % SCALE, TRUE)
\* the line of a row: the timestamp in whole milliseconds, then the readings
WrittenRow(row) ==
    <<Number(FALSE, row.timestamp, 0, FALSE),
      Written(row.reading.accelX), Written(row.reading.accelY),
      Written(row.reading.accelZ), Written(row.reading.gyroX),
      Written(row.reading.gyroY), Written(row.reading.gyroZ),
      Written(row.reading.altitude)>>
\* the text of a recording: the header, a line for each row, and the empty
\* string after the last line break
TextOf(rows) ==
    <<HeaderLine>> \o AsTuple([i \in 1..Len(rows) |-> WrittenRow(rows[i])])
                  \o <<BlankLine>>

\* rows of the longer recordings
LongLen == 22
\* mounted upside down: the first 20 rows average above zero, row 21 is below
UpsideDownRows ==
    AsTuple([i \in 1..LongLen |->
        Row(3000 + 100 * (i - 1),
            Reading(0, 0, IF i = 2 THEN 0 - 500 ELSE IF i = 21 THEN 0 - SCALE ELSE SCALE,
                    0, 0, 0))])
\* mounted upright: the first 20 rows average below zero although the first
\* row and the average of all rows are above
UprightRows ==
    AsTuple([i \in 1..LongLen |->
        Row(6000 + 100 * (i - 1),
            Reading(0, 0, IF i = 1 THEN SCALE ELSE IF i > 20 THEN 5 * SCALE ELSE 0 - 200,
                    0, 0, 0))])
\* the second row was logged before the first
UnsortedRows == <<Row(9100, Reading(0, 0, 0 - SCALE, 0, 0, 0)),
                  Row(9000, Reading(100, 0, 0 - SCALE, 0, 0, 0))>>
\* the recordings that are written as the logger writes them
Recordings == Files \o <<UpsideDownRows, UprightRows, UnsortedRows>>

\* two rows that the damaged texts are made of
DamagedRows(ts) == <<Row(ts, Reading(0, 0, 0 - SCALE, 0, 0, 0)),
                     Row(ts + 100, Reading(200, 0, 0 - SCALE, 0, 0, 0))>>
\* the second row has lost its last field
ShortRowText ==
    <<HeaderLine, WrittenRow(DamagedRows(10000)[1]),
      SubSeq(WrittenRow(DamagedRows(10000)[2]), 1, Len(HeaderNames) - 1), BlankLine>>
\* the second row has a field more than the header
LongRowText ==
    <<HeaderLine, WrittenRow(DamagedRows(11000)[1]),
      Append(WrittenRow(DamagedRows(11000)[2]), Written(SCALE)), BlankLine>>
\* accelX of the second row is not a number
WordText ==
    <<HeaderLine, WrittenRow(DamagedRows(12000)[1]),
      [WrittenRow(DamagedRows(12000)[2]) EXCEPT ![2] = Word("n/a")], BlankLine>>
\* a header and no row; and nothing but line breaks
HeaderOnlyText == <<HeaderLine, BlankLine>>
NoLinesText == <<BlankLine, BlankLine>>

\* the texts that can be loaded: the files first, under the same numbers
Texts ==
    AsTuple([r \in 1..Len(Recordings) |-> TextOf(Recordings[r])])
        \o <<ShortRowText, LongRowText, WordText, HeaderOnlyText, NoLinesText>>

\* Date.now() when the component is mounted
MountTime == 5000

(***************************************************************************)
(* ws.onmessage: the message is made into newDataPoint and the three       *)
(* updaters are queued.  filterType and firstFetchTimestamp are the values *)
(* of the render in which connectWebSocket() was called.                   *)
(***************************************************************************)
OnMessage(reading, delay) ==
    /\ ws.open
    /\ now' = now + delay
    /\ heap' = Append(heap,
                 RawPoint(now', now' - ws.firstFetchTimestamp,
                          reading.accelX, reading.accelY, reading.accelZ,
                          reading.gyroX, reading.gyroY, reading.gyroZ,
                          reading.altitude))
    /\ pending' = Append(pending, PushUpdate(Len(heap) + 1, ws.filterType, filterType))
    /\ pushed' = Append(pushed, Len(heap) + 1)
    /\ UNCHANGED poll
    /\ UNCHANGED <<data, filteredData, currentPoint, filterType, isRealtime,
                   firstFetchTimestamp, isLoading, ws, loading, lastApplied>>

\* React renders: every queued update is applied, in order
Render ==
    /\ pending # <<>>
    /\ \E st \in {ApplyAll(Store, pending)} : Commit(st)
    /\ pending' = <<>>
    /\ UNCHANGED poll
    /\ UNCHANGED <<filterType, isRealtime, firstFetchTimestamp, ws, loading, now, pushed>>

\* data.findIndex(p => p.timestamp === currentPoint.timestamp), as the object
\* filteredResult[index], or NoPoint when there is no current point or no index
PointAtTimestamp(h, ids, current) ==
    IF current = NoPoint THEN NoPoint
    ELSE IF \E i \in 1..Len(ids) : h[ids[i]].timestamp = h[current].timestamp
         THEN ids[CHOOSE i \in 1..Len(ids) :
                    /\ h[ids[i]].timestamp = h[current].timestamp
                    /\ \A j \in 1..(i - 1) : h[ids[j]].timestamp # h[current].timestamp]
    ELSE NoPoint

\* faulty variant of FilterTypeEffect: only the newest sample is filtered again
FilterTypeEffectNewest(st, queue, ft) ==
    IF Len(st.data) = 0
    THEN /\ Commit(st)
         /\ pending' = queue
    ELSE /\ Commit([st EXCEPT !.heap =
                       FilterObjects(st.heap, <<st.data[Len(st.data)]>>, ft)])
         /\ pending' = Append(queue,
                FilteredUpdate(st.data,
                               PointAtTimestamp(st.heap, st.data, st.currentPoint), ft))

\* the effect on [filterType], run for the render st that committed filterType = ft
FilterTypeEffect(st, queue, ft) ==
    IF Len(st.data) = 0
    THEN /\ Commit(st)
         /\ pending' = queue
    ELSE /\ Commit([st EXCEPT !.heap = FilterObjects(st.heap, st.data, ft)])
         /\ pending' = Append(queue,
                FilteredUpdate(st.data,
                               PointAtTimestamp(st.heap, st.data, st.currentPoint), ft))

\* the filter <select>: setFilterType(e.target.value), the render, and the effect
SetFilterType(ft, flush) ==
    /\ ~isLoading
    /\ ft # filterType
    /\ filterType' = ft
    /\ IF flush
       THEN \E st \in {ApplyAll(Store, pending)} : FilterTypeEffect(st, <<>>, ft)
       ELSE FilterTypeEffect(Store, pending, ft)
    /\ UNCHANGED poll
    /\ UNCHANGED <<isRealtime, firstFetchTimestamp, ws, loading, now, pushed>>

\* startRealtimeData, with connectWebSocket()
StartRealtimeData ==
    /\ ~isLoading
    /\ ~isRealtime
    /\ firstFetchTimestamp' = now
    /\ \E st \in {ApplyAll(Store, pending)} :
          Commit([st EXCEPT !.data = <<>>, !.filteredData = <<>>,
                            !.lastApplied = Applied(ResetUpdate)])
    /\ pending' = <<>>
    /\ ws' = [open |-> TRUE, filterType |-> filterType,
              firstFetchTimestamp |-> firstFetchTimestamp, isRealtime |-> isRealtime]
    /\ isRealtime' = TRUE
    /\ pushed' = <<>>
    /\ UNCHANGED poll
    /\ UNCHANGED <<filterType, loading, now>>

\* stopRealtimeData (its button is disabled unless isRealtime):
\* wsRef.current.close(), wsRef.current = null, setIsRealtime(false)
StopRealtimeData ==
    /\ ~isLoading
    /\ isRealtime
    /\ ws' = NoSocket
    /\ isRealtime' = FALSE
    /\ UNCHANGED poll
    /\ UNCHANGED <<heap, data, filteredData, currentPoint, filterType,
                   firstFetchTimestamp, isLoading, pending, loading, now, pushed,
                   lastApplied>>

\* ws.onclose when the connection is lost, and its timer three seconds later:
\* if (isRealtime) connectWebSocket(), with the isRealtime the handler closed over
OnClose ==
    /\ ws.open
    /\ ws' = IF ws.isRealtime THEN ws ELSE NoSocket
    /\ UNCHANGED poll
    /\ UNCHANGED <<heap, data, filteredData, currentPoint, filterType, isRealtime,
                   firstFetchTimestamp, isLoading, pending, loading, now, pushed,
                   lastApplied>>

\* handleFileSelect, loadDefaultFile or loadGoldenSlumbers1 up to the await (the
\* controls are disabled while isRealtime): setIsLoading(true); processData is
\* the one of this render
HandleFileSelect(file) ==
    /\ ~isLoading
    /\ ~isRealtime
    /\ isLoading' = TRUE
    /\ loading' = loading \cup {[file |-> file, filterType |-> filterType]}
    /\ UNCHANGED poll
    /\ UNCHANGED <<heap, data, filteredData, currentPoint, filterType, isRealtime,
                   firstFetchTimestamp, ws, pending, now, pushed, lastApplied>>

\* handleMouseMove on a chart of filteredData: setCurrentPoint(payload)
HandleMouseMove(payload) ==
    /\ ~isLoading
    /\ \E i \in 1..Len(filteredData) : filteredData[i] = payload
    /\ \E st \in {ApplyAll(Store, pending)} : Commit(ApplyUpdate(st, MoveUpdate(payload)))
    /\ pending' = <<>>
    /\ UNCHANGED poll
    /\ UNCHANGED <<filterType, isRealtime, firstFetchTimestamp, ws, loading, now, pushed>>

\* row.trim().length > 0 fails
IsBlankLine(line) == \A i \in 1..Len(line) : line[i].kind = "blank"
\* fileContent.split('\n').filter(row => row.trim().length > 0)
NonBlankLines(text) == SelectSeq(text, LAMBDA line : ~IsBlankLine(line))

\* parseInt(values[index]): the digits before the separator, NaN without digits
parseInt(field) ==
    IF field.kind = "number"
    THEN (IF field.negative THEN 0 - field.whole ELSE field.whole) * SCALE
    ELSE NaN
\* parseFloat(values[index].replace(',', '.'))
parseFloat(field) ==
    IF field.kind = "number"
    THEN IF field.negative THEN 0 - (field.whole * SCALE + field.thousandths)
         ELSE field.whole * SCALE + field.thousandths
    ELSE NaN

\* values[index].replace throws for an index > 0 that the row does not have
RowNeverThrows(headers, values) == FALSE
RowThrows(headers, values) ==
    \E index \in 2..Len(headers) : index > Len(values)

\* the last column whose trimmed header is name, 0 when there is none
ColumnOf(headers, name) ==
    IF \E c \in 1..Len(headers) : headers[c].name = name
    THEN CHOOSE c \in 1..Len(headers) :
            /\ headers[c].name = name
            /\ \A d \in (c + 1)..Len(headers) : headers[d].name # name
    ELSE 0
\* rowData[name] after headers.forEach
RowData(headers, values, name) ==
    IF ColumnOf(headers, name) = 0 \/ ColumnOf(headers, name) > Len(values) THEN Undef
    ELSE IF ColumnOf(headers, name) = 1 THEN parseInt(values[1])
    ELSE parseFloat(values[ColumnOf(headers, name)])
\* a number of milliseconds, which the model keeps unscaled
Milliseconds(v) == IF IsFinite(v) THEN v \div SCALE ELSE v
\* rowData as a row
ParsedRow(headers, values) ==
    [timestamp |-> Milliseconds(RowData(headers, values, "timestamp")),
     reading |-> [accelX |-> RowData(headers, values, "accelX"),
                  accelY |-> RowData(headers, values, "accelY"),
                  accelZ |-> RowData(headers, values, "accelZ"),
                  gyroX |-> RowData(headers, values, "gyroX"),
                  gyroY |-> RowData(headers, values, "gyroY"),
                  gyroZ |-> RowData(headers, values, "gyroZ"),
                  altitude |-> RowData(headers, values, "altitude")]]
\* rows.slice(1).map(...)
ParsedRows(rows) ==
    AsTuple([r \in 1..(Len(rows) - 1) |-> ParsedRow(rows[1], rows[r + 1])])

\* rows[0].split throws when there is no line
HeaderMissing(rows) == Len(rows) = 0
\* parsedData[0].timestamp throws when there is no row
FirstRowNeverMissing(rows) == FALSE
FirstRowMissing(rows) == Len(rows) = 1
\* processData throws before its first setData
ProcessDataThrows(rows) ==
    \/ HeaderMissing(rows)
    \/ \E r \in 2..Len(rows) : RowThrows(rows[1], rows[r])
    \/ FirstRowMissing(rows)

\* row.relativeTime = (row.timestamp - startTime) / 1000
ParsedPoint(row, startTime) ==
    RawPoint(row.timestamp, fSub(row.timestamp, startTime),
             row.reading.accelX, row.reading.accelY, row.reading.accelZ,
             row.reading.gyroX, row.reading.gyroY, row.reading.gyroZ,
             row.reading.altitude)

\* avgAccelZ over the first Math.min(20, parsedData.length) points, times their number
RECURSIVE SumAccelZ(_, _)
SumAccelZ(points, n) ==
    IF n = 0 THEN 0 ELSE fAdd(SumAccelZ(points, n - 1), points[n].accelZ)

\* faulty variant of needsZInversion: only the first point is looked at
needsZInversionFirst(points) == fGt(points[1].accelZ, 0)

needsZInversion(points) ==
    fGt(fDiv(SumAccelZ(points, IF Len(points) < 20 THEN Len(points) ELSE 20),
             SCALE * (IF Len(points) < 20 THEN Len(points) ELSE 20)), 0)

\* parsedData of processData: relative time, then the Z axis correction
parsedData(rows) ==
    CHOOSE r \in
        {IF needsZInversion(points)
         THEN AsTuple([i \in 1..Len(points) |->
                  [points[i] EXCEPT !.accelZ = NegValue[@]]])
         ELSE points :
            points \in {AsTuple([i \in 1..Len(rows) |->
                           ParsedPoint(rows[i], rows[1].timestamp)])}} : TRUE

\* processData(fileContent) after the await of the load l; what it throws is
\* caught by the caller, which calls setIsLoading(false)
ProcessData(l) ==
    /\ l \in loading
    /\ loading' = loading \ {l}
    /\ \E rows \in {NonBlankLines(Texts[l.file])} :
          IF ProcessDataThrows(rows)
          THEN /\ pending' = Append(pending, [IdleUpdate EXCEPT !.file = l.file])
               /\ UNCHANGED heap
          ELSE \E ids \in {AsTuple([i \in 1..(Len(rows) - 1) |-> Len(heap) + i])} :
                  /\ heap' = FilterObjects(heap \o parsedData(ParsedRows(rows)),
                                           ids, l.filterType)
                  /\ pending' = Append(pending,
                         [BatchUpdate(ids, l.filterType, filterType)
                              EXCEPT !.file = l.file])
    /\ UNCHANGED poll
    /\ UNCHANGED <<data, filteredData, currentPoint, filterType, isRealtime,
                   firstFetchTimestamp, isLoading, ws, now, pushed, lastApplied>>

\* the load fails (response not ok): the catch block
LoadFails(l) ==
    /\ l \in loading
    /\ loading' = loading \ {l}
    /\ pending' = Append(pending, IdleUpdate)
    /\ UNCHANGED poll
    /\ UNCHANGED <<heap, data, filteredData, currentPoint, filterType, isRealtime,
                   firstFetchTimestamp, isLoading, ws, now, pushed, lastApplied>>

\* the mounted component: the effect loadDefaultFile() has reached its await
Init ==
    /\ heap = <<>>
    /\ data = <<>>
    /\ filteredData = <<>>
    /\ currentPoint = NoPoint
    /\ filterType = "complementary"
    /\ isRealtime = FALSE
    /\ firstFetchTimestamp = 0
    /\ isLoading = TRUE
    /\ ws = NoSocket
    /\ pending = <<>>
    /\ loading = {[file |-> DefaultFile, filterType |-> "complementary"]}
    /\ now = MountTime
    /\ pushed = <<>>
    /\ poll = NoPoll
    /\ lastApplied = Applied(NoUpdate)

Next ==
    \/ /\ Len(heap) < MaxObjects
       /\ Len(pending) < MaxPending
       /\ \E reading \in LiveReadings, delay \in Delays : OnMessage(reading, delay)
    \/ Render
    \/ /\ Len(pending) < MaxPending
       /\ \E ft \in FilterTypes, flush \in BOOLEAN : SetFilterType(ft, flush)
    \/ StartRealtimeData
    \/ StopRealtimeData
    \/ OnClose
    \/ \E file \in 1..Len(Files) : HandleFileSelect(file)
    \/ \E payload \in 1..Len(heap) : HandleMouseMove(payload)
    \/ \E l \in loading :
          /\ Len(heap) + Len(Files[l.file]) <= MaxObjects
          /\ Len(pending) < MaxPending
          /\ ProcessData(l)
    \/ \E l \in loading :
          /\ Len(pending) < MaxPending
          /\ LoadFails(l)

Spec == Init /\ [][Next]_vars

(***************************************************************************)
(* A long live session: the default file is missing, the live source is    *)
(* started once and the device streams MaxPushes readings.                 *)
(***************************************************************************)
\* readings received in the long session
MaxPushes == 303

\* the n-th reading of the stream
StreamReading(n) ==
    Reading((n % 3) * 100, (n % 5) * 100, (n % 2) * 50 - SCALE,
            (n % 7) * SCALE, ((n % 4) - 2) * SCALE, (n % 3) * SCALE)

\* the device sends every 100 ms
StreamDelay == 100

NextWindow ==
    \/ \E l \in loading : LoadFails(l)
    \/ StartRealtimeData
    \/ /\ Len(pushed) < MaxPushes
       /\ Len(pending) < MaxPending
       /\ OnMessage(StreamReading(Len(pushed) + 1), StreamDelay)
    \/ Render

SpecWindow == Init /\ [][NextWindow]_vars

(***************************************************************************)
(* The filters on their own: a live session whose window holds any         *)
(* sequence of up to MaxLen samples, on which the user changes the filter. *)
(***************************************************************************)
\* longest sequence the filters are checked on
MaxLen == 3

Sample(reading, delay) == [reading |-> reading, delay |-> delay]

\* at rest and level; rolling slowly after a pause; tilted and turning; the
\* same in the millisecond of the sample before; spinning fast after a pause
FusionSamples ==
    {Sample(RestReading, 100),
     Sample(Reading(0, 0, 0 - SCALE, 5 * SCALE, 0, 0), 600),
     Sample(TiltReading, 100),
     Sample(TiltReading, 0),
     Sample(Reading(0, SCALE, 0, 0, 0, 0 - 250 * SCALE), 600)}

\* Date.now() when sample n of the sequence samples arrived
RECURSIVE ArrivalTime(_, _)
ArrivalTime(samples, n) ==
    IF n = 0 THEN MountTime ELSE ArrivalTime(samples, n - 1) + samples[n].delay

\* newDataPoint of sample n, in a session whose handlers saw firstFetchTimestamp = 0
StreamPoint(samples, n) ==
    RawPoint(ArrivalTime(samples, n), ArrivalTime(samples, n),
             samples[n].reading.accelX, samples[n].reading.accelY,
             samples[n].reading.accelZ, samples[n].reading.gyroX,
             samples[n].reading.gyroY, samples[n].reading.gyroZ,
             samples[n].reading.altitude)

StreamPoints(samples) == AsTuple([n \in 1..Len(samples) |-> StreamPoint(samples, n)])

\* the first n object ids
Ids(n) == AsTuple([i \in 1..n |-> i])

\* the live session after the samples have been received and rendered
InitFusion ==
    \E n \in 0..MaxLen : \E samples \in [1..n -> FusionSamples] :
        /\ heap = FilterObjects(StreamPoints(samples), Ids(n), "complementary")
        /\ data = Ids(n)
        /\ filteredData = Ids(n)
        /\ currentPoint = n
        /\ filterType = "complementary"
        /\ isRealtime = TRUE
        /\ firstFetchTimestamp = MountTime
        /\ isLoading = FALSE
        /\ ws = [open |-> TRUE, filterType |-> "complementary",
                 firstFetchTimestamp |-> 0, isRealtime |-> FALSE]
        /\ pending = <<>>
        /\ loading = {}
        /\ now = ArrivalTime(samples, n)
        /\ pushed = Ids(n)
        /\ poll = NoPoll
        /\ lastApplied = IF n = 0 THEN Applied(IdleUpdate)
                         ELSE Applied(PushUpdate(n, "complementary", "complementary"))

NextFusion ==
    \/ /\ Len(pending) < MaxPending
       /\ \E ft \in FilterTypes, flush \in BOOLEAN : SetFilterType(ft, flush)
    \/ Render

SpecFusion == InitFusion /\ [][NextFusion]_vars


(***************************************************************************)
(* Loading: after the default file, one more text is chosen, among them    *)
(* the longer recordings and the damaged texts.                            *)
(***************************************************************************)
\* a text or a strategy can be chosen while the heap holds at most this many
\* objects
MaxLoaded == 2

NextLoad ==
    \/ \E file \in 1..Len(Texts) :
          /\ Len(heap) <= MaxLoaded
          /\ HandleFileSelect(file)
    \/ \E l \in loading :
          /\ Len(pending) < MaxPending
          /\ ProcessData(l)
    \/ \E l \in loading :
          /\ Len(pending) < MaxPending
          /\ LoadFails(l)
    \/ Render
    \/ /\ Len(heap) <= MaxLoaded
       /\ Len(pending) < MaxPending
       /\ \E ft \in FilterTypes, flush \in BOOLEAN : SetFilterType(ft, flush)

SpecLoad == Init /\ [][NextLoad]_vars


(***************************************************************************)
(* compensateAcceleration on its own: the heap holds the arguments of the  *)
(* call, and each call puts the object it returns after them.              *)
(***************************************************************************)
\* calls made with the same arguments
MaxCalls == 2
\* whole numbers of g, of degrees per second (squared) and of metres
Vectors == {<<0, 0, 0>>, <<1, 0, 0>>, <<0, 2, 0 - 1>>, <<0 - 3, 1, 2>>, <<1, 1, 1>>}
Scaled(v) == <<v[1] * SCALE, v[2] * SCALE, v[3] * SCALE>>

InitCompensate ==
    /\ \E accel \in Vectors, gyro \in Vectors, angAccel \in Vectors,
          sensorPosition \in Vectors :
            heap = <<[accel |-> Scaled(accel), gyro |-> Scaled(gyro),
                      angAccel |-> Scaled(angAccel),
                      sensorPosition |-> Scaled(sensorPosition)]>>
    /\ data = <<>>
    /\ filteredData = <<>>
    /\ currentPoint = NoPoint
    /\ filterType = "complementary"
    /\ isRealtime = FALSE
    /\ firstFetchTimestamp = 0
    /\ isLoading = FALSE
    /\ ws = NoSocket
    /\ pending = <<>>
    /\ loading = {}
    /\ now = MountTime
    /\ pushed = <<>>
    /\ poll = NoPoll
    /\ lastApplied = Applied(NoUpdate)

\* a call of compensateAcceleration with the arguments on the heap
CallCompensate ==
    /\ Len(heap) <= MaxCalls
    /\ heap' = Append(heap,
          compensateAcceleration(heap[1].accel[1], heap[1].accel[2], heap[1].accel[3],
                                 heap[1].gyro[1], heap[1].gyro[2], heap[1].gyro[3],
                                 heap[1].angAccel[1], heap[1].angAccel[2],
                                 heap[1].angAccel[3], heap[1].sensorPosition))
    /\ UNCHANGED poll
    /\ UNCHANGED <<data, filteredData, currentPoint, filterType, isRealtime,
                   firstFetchTimestamp, isLoading, ws, pending, loading, now,
                   pushed, lastApplied>>

NextCompensate == CallCompensate

SpecCompensate == InitCompensate /\ [][NextCompensate]_vars


(***************************************************************************)
(* Polling: the earlier variants of the component poll the API with a      *)
(* timer instead of a socket.  fetchRealtimeData, startRealtimeData and    *)
(* stopRealtimeData are those of the render in which the timer was made.   *)
(* An attempt fails when the API call rejects, as the fetch of the real    *)
(* API does; the mock API that the variants call in its place never does.  *)
(***************************************************************************)
\* timers made in a run
MaxTimers == 2
\* calls of fetchRealtimeData waiting for the API at a time
MaxFetches == 2
\* objects on the heap in SpecPoll
MaxPolled == 2
\* let retries = 3
Retries == 3

\* what fetchRealtimeData of the render that called setInterval closed over
Timer(id) ==
    [id |-> id, firstFetchTimestamp |-> firstFetchTimestamp,
     realtimeInterval |-> poll.interval, dataLength |-> Len(data)]
\* clearInterval(id)
clearInterval(timers, id) == {t \in timers : t.id # id}

\* startRealtimeData of the polling variants (the button is disabled while
\* isRealtime)
StartPolling ==
    /\ ~isLoading
    /\ ~isRealtime
    /\ poll.nextId <= MaxTimers
    /\ firstFetchTimestamp' = now
    /\ \E st \in {ApplyAll(Store, pending)} :
          Commit([st EXCEPT !.data = <<>>, !.filteredData = <<>>,
                            !.lastApplied = Applied(ResetUpdate)])
    /\ pending' = <<>>
    /\ poll' = [poll EXCEPT !.timers = @ \cup {Timer(poll.nextId)},
                            !.interval = poll.nextId,
                            !.nextId = @ + 1]
    /\ isRealtime' = TRUE
    /\ pushed' = <<>>
    /\ UNCHANGED <<filterType, ws, loading, now>>

\* stopRealtimeData with the realtimeInterval it closed over, on the timers
\* and the state realtimeInterval of p: if (realtimeInterval) {
\* clearInterval(realtimeInterval); setRealtimeInterval(null) }
stopRealtimeData(p, realtimeInterval) ==
    IF realtimeInterval # 0
    THEN [p EXCEPT !.timers = clearInterval(@, realtimeInterval), !.interval = 0]
    ELSE p

\* the button REALTIME OFF (disabled unless isRealtime): stopRealtimeData of
\* the current render, and setIsRealtime(false)
StopPolling ==
    /\ ~isLoading
    /\ isRealtime
    /\ poll' = stopRealtimeData(poll, poll.interval)
    /\ isRealtime' = FALSE
    /\ UNCHANGED <<heap, data, filteredData, currentPoint, filterType,
                   firstFetchTimestamp, isLoading, ws, pending, loading, now,
                   pushed, lastApplied>>

\* the effect on [realtimeInterval] after a render that changed it: the cleanup
\* of the previous render clears the interval it closed over
IntervalEffect ==
    /\ poll.effect # poll.interval
    /\ poll' = [poll EXCEPT
                   !.timers = IF poll.effect # 0
                              THEN clearInterval(@, poll.effect) ELSE @,
                   !.effect = poll.interval]
    /\ UNCHANGED <<heap, data, filteredData, currentPoint, filterType, isRealtime,
                   firstFetchTimestamp, isLoading, ws, pending, loading, now,
                   pushed, lastApplied>>

\* the timer t fires: fetchRealtimeData() starts its first attempt
Tick(t) ==
    /\ t \in poll.timers
    /\ Cardinality(poll.fetches) < MaxFetches
    /\ [timer |-> t, retries |-> Retries] \notin poll.fetches
    /\ poll' = [poll EXCEPT !.fetches = @ \cup {[timer |-> t, retries |-> Retries]}]
    /\ UNCHANGED <<heap, data, filteredData, currentPoint, filterType, isRealtime,
                   firstFetchTimestamp, isLoading, ws, pending, loading, now,
                   pushed, lastApplied>>

\* the API answers the attempt f: newDataPoint and the three updaters
FetchResolves(f, reading, delay) ==
    /\ f \in poll.fetches
    /\ now' = now + delay
    /\ heap' = Append(heap,
                 RawPoint(now', now' - f.timer.firstFetchTimestamp,
                          reading.accelX, reading.accelY, reading.accelZ,
                          reading.gyroX, reading.gyroY, reading.gyroZ,
                          reading.altitude))
    /\ firstFetchTimestamp' = IF f.timer.dataLength = 0 THEN now'
                              ELSE firstFetchTimestamp
    /\ pending' = Append(pending,
                     PushUpdate(Len(heap) + 1, "complementary", "complementary"))
    /\ pushed' = Append(pushed, Len(heap) + 1)
    /\ poll' = [poll EXCEPT !.fetches = @ \ {f}]
    /\ UNCHANGED <<data, filteredData, currentPoint, filterType, isRealtime,
                   isLoading, ws, loading, lastApplied>>

\* the attempt f fails: retries--, then another attempt, or stopRealtimeData()
\* of the render that made the timer
FetchFails(f) ==
    /\ f \in poll.fetches
    /\ IF f.retries - 1 > 0
       THEN /\ [f EXCEPT !.retries = @ - 1] \notin poll.fetches
            /\ poll' = [poll EXCEPT !.fetches =
                           (@ \ {f}) \cup {[f EXCEPT !.retries = @ - 1]}]
            /\ UNCHANGED isRealtime
       ELSE /\ poll' = stopRealtimeData([poll EXCEPT !.fetches = @ \ {f}],
                                        f.timer.realtimeInterval)
            /\ isRealtime' = FALSE
    /\ UNCHANGED <<heap, data, filteredData, currentPoint, filterType,
                   firstFetchTimestamp, isLoading, ws, pending, loading, now,
                   pushed, lastApplied>>

\* the mounted component after the default file could not be loaded
InitPoll ==
    /\ heap = <<>>
    /\ data = <<>>
    /\ filteredData = <<>>
    /\ currentPoint = NoPoint
    /\ filterType = "complementary"
    /\ isRealtime = FALSE
    /\ firstFetchTimestamp = 0
    /\ isLoading = FALSE
    /\ ws = NoSocket
    /\ pending = <<>>
    /\ loading = {}
    /\ now = MountTime
    /\ pushed = <<>>
    /\ lastApplied = Applied(IdleUpdate)
    /\ poll = NoPoll

NextPoll ==
    \/ StartPolling
    \/ StopPolling
    \/ IntervalEffect
    \/ \E t \in poll.timers : Tick(t)
    \/ \E f \in poll.fetches :
          /\ Len(heap) < MaxPolled
          /\ Len(pending) < MaxPending
          /\ \E reading \in LiveReadings, delay \in Delays : FetchResolves(f, reading, delay)
    \/ \E f \in poll.fetches : FetchFails(f)
    \/ Render

SpecPoll == InitPoll /\ [][NextPoll]_vars

(***************************************************************************)
(* The filters on samples at the edge of their domain: long pauses, no     *)
(* acceleration at all, and a long stay at rest.                           *)
(***************************************************************************)
\* longest sequence of mixed samples
MaxEdgeLen == 3
\* shortest and longest stay at rest
MinRest == 50
MaxRest == 51

\* at rest and level; tilted and turning ten seconds later; spinning ten
\* seconds later; in free fall (no acceleration measured)
EdgeSamples ==
    {Sample(RestReading, 100),
     Sample(TiltReading, 10000),
     Sample(Reading(0, SCALE, 0, 0, 0, 0 - 250 * SCALE), 10000),
     Sample(Reading(0, 0, 0, 5 * SCALE, 0, 0), 100)}

EdgeSequences ==
    UNION {[1..n -> EdgeSamples] : n \in 1..MaxEdgeLen}
        \cup {[i \in 1..n |-> Sample(RestReading, 100)] : n \in MinRest..MaxRest}

\* the live session after the samples have been received and rendered
SessionAfter(samples) ==
    /\ heap = FilterObjects(StreamPoints(samples), Ids(Len(samples)), "complementary")
    /\ data = Ids(Len(samples))
    /\ filteredData = Ids(Len(samples))
    /\ currentPoint = Len(samples)
    /\ filterType = "complementary"
    /\ isRealtime = TRUE
    /\ firstFetchTimestamp = MountTime
    /\ isLoading = FALSE
    /\ ws = [open |-> TRUE, filterType |-> "complementary",
             firstFetchTimestamp |-> 0, isRealtime |-> FALSE]
    /\ pending = <<>>
    /\ loading = {}
    /\ now = ArrivalTime(samples, Len(samples))
    /\ pushed = Ids(Len(samples))
    /\ poll = NoPoll
    /\ lastApplied = Applied(PushUpdate(Len(samples), "complementary", "complementary"))

InitEdge == \E samples \in EdgeSequences : SessionAfter(AsTuple(samples))

SpecEdge == InitEdge /\ [][NextFusion]_vars

(***************************************************************************)
(* Properties.                                                             *)
(***************************************************************************)
\* the sensor fields of a sample, without what the filters wrote
RawOf(p) ==
    RawPoint(p.timestamp, p.relativeTime, p.accelX, p.accelY, p.accelZ,
             p.gyroX, p.gyroY, p.gyroZ, p.altitude)
RawObjects(h, ids) == AsTuple([i \in 1..Len(ids) |-> RawOf(h[ids[i]])])

Orientation(p) == <<p.roll, p.pitch, p.yaw>>
Orientations(points) == AsTuple([i \in 1..Len(points) |-> Orientation(points[i])])

\* the pushes of the session that a render has applied
AppliedPushes ==
    Len(pushed) - Cardinality({i \in 1..Len(pending) : pending[i].kind = "push"})

\* the last update rendered is a push, and nothing is queued
PushCompleted ==
    /\ pending = <<>>
    /\ lastApplied.kind = "push"

\* the fused output of the last pass is rendered, and nothing is queued
FusedState ==
    /\ pending = <<>>
    /\ lastApplied.kind \in {"push", "filtered"}

InRange(a) == IsFinite(a) /\ a >= 0 - 180 * SCALE /\ a <= 180 * SCALE

\* C1: in live mode, after N pushes have been applied, the window (data) holds
\* exactly the min(N, 300) most recently pushed samples, in push order.
RollingWindowHoldsLatest ==
    isRealtime =>
        LET n == AppliedPushes
            m == IF n < 300 THEN n ELSE 300
        IN /\ Len(data) = m
           /\ \A i \in 1..m : data[i] = pushed[n - m + i]

\* more than 300 pushes have been applied and the oldest have been evicted
WindowHasEvicted ==
    /\ isRealtime
    /\ pending = <<>>
    /\ Len(pushed) > 300
    /\ Len(data) = 300
    /\ data[1] = pushed[Len(pushed) - 299]
    /\ data[300] = pushed[Len(pushed)]

PushFusesWithSelectedStrategy ==
    PushCompleted =>
        Orientations(Objects(heap, filteredData)) =
            Orientations(applySelectedFilter(RawObjects(heap, filteredData),
                                             lastApplied.selected))

BatchReplacesBuffer ==
    (pending = <<>> /\ lastApplied.kind = "batch") =>
        /\ filteredData = data
        /\ lastApplied.filterType = filterType
        /\ \E f \in 1..Len(Files) :
              /\ Len(data) = Len(Files[f])
              /\ \A i \in 1..Len(data) :
                    /\ heap[data[i]].timestamp = Files[f][i].timestamp
                    /\ heap[data[i]].accelX = Files[f][i].reading.accelX
                    /\ heap[data[i]].accelY = Files[f][i].reading.accelY
                    /\ fAbs(heap[data[i]].accelZ) = fAbs(Files[f][i].reading.accelZ)
                    /\ heap[data[i]].gyroX = Files[f][i].reading.gyroX
                    /\ heap[data[i]].gyroY = Files[f][i].reading.gyroY
                    /\ heap[data[i]].gyroZ = Files[f][i].reading.gyroZ
        /\ \A i \in 1..Len(data) : heap[data[i]].roll # Undef
        /\ Orientations(Objects(heap, data)) =
              Orientations(applySelectedFilter(RawObjects(heap, data), filterType))

\* a file was loaded into a session that had received a live sample
BatchLoadedAfterLive ==
    /\ pending = <<>>
    /\ lastApplied.kind = "batch"
    /\ Len(pushed) > 0
    /\ Len(data) = 1
    /\ data[1] # pushed[1]

\* C6: every sample of the window is in the fused output, with an orientation.
WindowAndFusionAtomic ==
    \A i \in 1..Len(data) :
        /\ \E j \in 1..Len(filteredData) : filteredData[j] = data[i]
        /\ heap[data[i]].roll # Undef

\* the samples that can follow the sample p
LaterPoints(p) ==
    {RawPoint(p.timestamp + s.delay, p.relativeTime + s.delay,
              s.reading.accelX, s.reading.accelY, s.reading.accelZ,
              s.reading.gyroX, s.reading.gyroY, s.reading.gyroZ,
              s.reading.altitude) : s \in FusionSamples}

\* sequences that agree with raw on its first i samples: nothing after them,
\* or one other sample after them
Continuations(raw, i) ==
    {SubSeq(raw, 1, i)} \cup {Append(SubSeq(raw, 1, i), q) : q \in LaterPoints(raw[i])}

\* C7: the orientation of sample i depends only on the samples up to i: a
\* sequence with the same first i samples gives them the same orientations,
\* whatever follows.
FusionIsCausal ==
    FusedState =>
        \A i \in 1..Len(filteredData) :
            \A other \in Continuations(RawObjects(heap, filteredData), i) :
                Orientations(SubSeq(applySelectedFilter(other, lastApplied.filterType), 1, i))
                    = Orientations(SubSeq(Objects(heap, filteredData), 1, i))

\* three different samples fused by the Madgwick filter, with numbers as output
ThreeSamplesFused ==
    /\ FusedState
    /\ lastApplied.filterType = "madgwick"
    /\ Len(filteredData) = 3
    /\ heap[filteredData[2]].gyroZ # heap[filteredData[3]].gyroZ
    /\ heap[filteredData[1]].gyroX # heap[filteredData[2]].gyroX
    /\ IsFinite(heap[filteredData[3]].roll)
    /\ IsFinite(heap[filteredData[3]].yaw)

\* C8: a strategy run again gives the same output, on the raw samples and on
\* the samples that carry the output of earlier runs.
FusionIsIdempotent ==
    FusedState =>
        /\ Orientations(applySelectedFilter(Objects(heap, filteredData),
                                            lastApplied.filterType))
              = Orientations(Objects(heap, filteredData))
        /\ Orientations(applySelectedFilter(RawObjects(heap, filteredData),
                                            lastApplied.filterType))
              = Orientations(Objects(heap, filteredData))

\* the complementary filter has run again on samples that the Kalman filter
\* had annotated, and has turned the yaw
ComplementaryRunAgain ==
    /\ FusedState
    /\ lastApplied.kind = "filtered"
    /\ lastApplied.filterType = "complementary"
    /\ filterType = "complementary"
    /\ Len(filteredData) = 3
    /\ heap[filteredData[3]].compAccelX # Undef
    /\ IsFinite(heap[filteredData[3]].yaw)
    /\ heap[filteredData[3]].yaw # 0

\* C9: every fused sample has its yaw within [-180, 180], and with the Kalman
\* filter its roll and pitch too.
YawIsWrapped ==
    FusedState =>
        \A i \in 1..Len(filteredData) :
            /\ InRange(heap[filteredData[i]].yaw)
            /\ lastApplied.filterType = "kalman" =>
                  /\ InRange(heap[filteredData[i]].roll)
                  /\ InRange(heap[filteredData[i]].pitch)

\* C10 as stated: every fused sample of any strategy has its roll and pitch
\* within [-180, 180].
RollPitchAreWrapped ==
    FusedState =>
        \A i \in 1..Len(filteredData) :
            /\ InRange(heap[filteredData[i]].roll)
            /\ InRange(heap[filteredData[i]].pitch)

\* C10: every sample fused by the Kalman filter has its roll and pitch within
\* [-180, 180].
KalmanRollPitchAreWrapped ==
    (FusedState /\ lastApplied.filterType = "kalman") =>
        \A i \in 1..Len(filteredData) :
            /\ InRange(heap[filteredData[i]].roll)
            /\ InRange(heap[filteredData[i]].pitch)

\* the Kalman filter has brought the roll of a level sample (accelerometer
\* roll 180) round to the negative side
KalmanRollWrapped ==
    /\ FusedState
    /\ lastApplied.filterType = "kalman"
    /\ \E i \in 2..Len(filteredData) :
          /\ heap[filteredData[i]].accelY = 0
          /\ heap[filteredData[i]].accelZ = 0 - SCALE
          /\ heap[filteredData[i]].roll < 0 - 170 * SCALE
          /\ heap[filteredData[i]].roll >= 0 - 180 * SCALE

\* raw with sample i, and every sample after it, brought forward so that
\* sample i comes 0.5 s after sample i - 1
BroughtForward(raw, i) ==
    AsTuple([j \in 1..Len(raw) |->
        IF j < i THEN raw[j]
        ELSE [raw[j] EXCEPT
                !.relativeTime = @ - (raw[i].relativeTime - raw[i - 1].relativeTime - 500),
                !.timestamp = @ - (raw[i].relativeTime - raw[i - 1].relativeTime - 500)]])

AtRest(p) ==
    /\ p.accelX = 0 /\ p.accelY = 0 /\ p.accelZ = 0 - SCALE
    /\ p.gyroX = 0 /\ p.gyroY = 0 /\ p.gyroZ = 0

\* C12: after 50 or more identical samples at rest, roll and pitch of the
\* last sample are within 0.1 degree of 0, and yaw is 0 at every sample.
StaticRestConverges ==
    (/\ FusedState
     /\ Len(filteredData) >= 50
     /\ \A i \in 1..Len(filteredData) : AtRest(heap[filteredData[i]])) =>
        /\ IsFinite(heap[filteredData[Len(filteredData)]].roll)
        /\ fAbs(heap[filteredData[Len(filteredData)]].roll) <= 100
        /\ IsFinite(heap[filteredData[Len(filteredData)]].pitch)
        /\ fAbs(heap[filteredData[Len(filteredData)]].pitch) <= 100
        /\ \A i \in 1..Len(filteredData) : heap[filteredData[i]].yaw = 0

\* roll and pitch of the accelerometer alone, and yaw 0
AccelerometerOrientation(p) ==
    <<fAtan2Deg(p.accelY, p.accelZ),
      fAtan2Deg(fNeg(p.accelX),
                fSqrt(fAdd(fMul(p.accelY, p.accelY), fMul(p.accelZ, p.accelZ)))),
      0>>

\* C13 as stated: whichever strategy is selected, the first fused sample has
\* the roll and pitch of its accelerometer reading and yaw 0.
InitialOrientationShared ==
    (FusedState /\ Len(filteredData) > 0) =>
        Orientation(heap[filteredData[1]]) = AccelerometerOrientation(heap[filteredData[1]])

\* C13: with the complementary and the Kalman filter, the first fused sample
\* has the roll and pitch of its accelerometer reading and yaw 0.
InitialOrientationFromAccelerometer ==
    (/\ FusedState
     /\ Len(filteredData) > 0
     /\ lastApplied.filterType \in {"complementary", "kalman"}) =>
        Orientation(heap[filteredData[1]]) = AccelerometerOrientation(heap[filteredData[1]])

\* the Kalman filter has fused a sequence that starts with a tilted sample
TiltedStartFused ==
    /\ FusedState
    /\ lastApplied.filterType = "kalman"
    /\ Len(filteredData) > 1
    /\ heap[filteredData[1]].accelX # 0
    /\ heap[filteredData[1]].accelY # 0
    /\ IsFinite(heap[filteredData[1]].roll)
    /\ heap[filteredData[1]].pitch # 0
    /\ heap[filteredData[1]].yaw = 0


\* a load of a text is on the screen, with nothing queued after it
BatchLoaded == pending = <<>> /\ lastApplied.kind = "batch"
\* the accelZ of the first n rows of a recording, added up
RECURSIVE RecordedAccelZ(_, _)
RecordedAccelZ(rows, n) ==
    IF n = 0 THEN 0 ELSE RecordedAccelZ(rows, n - 1) + rows[n].reading.accelZ

\* C14: when the accelZ of the first min(20, N) rows of a loaded recording
\* average above zero, the accelZ of every sample of the buffer, the ones
\* after the first 20 included, is the negated accelZ of its row; when they
\* average below zero every sample keeps the accelZ of its row.
ZAxisIsCorrected ==
    (BatchLoaded /\ lastApplied.file \in 1..Len(Recordings)) =>
        LET rows == Recordings[lastApplied.file]
            sum == RecordedAccelZ(rows, IF Len(rows) < 20 THEN Len(rows) ELSE 20)
        IN  /\ Len(data) = Len(rows)
            /\ sum > 0 => \A i \in 1..Len(rows) :
                              heap[data[i]].accelZ = 0 - rows[i].reading.accelZ
            /\ sum < 0 => \A i \in 1..Len(rows) :
                              heap[data[i]].accelZ = rows[i].reading.accelZ
\* the upside-down recording is loaded: row 21, below zero in the text, is
\* above zero in the buffer
UpsideDownLoaded ==
    /\ BatchLoaded
    /\ lastApplied.file \in 1..Len(Recordings)
    /\ Recordings[lastApplied.file] = UpsideDownRows
    /\ Len(data) = LongLen
    /\ heap[data[21]].accelZ = SCALE


\* C15: the samples of a loaded buffer are in the order of their relative
\* time, whatever the order of the rows of the text was.
LoadedBufferIsOrdered ==
    BatchLoaded =>
        \A i \in 1..(Len(data) - 1) :
            heap[data[i]].relativeTime <= heap[data[i + 1]].relativeTime

\* the lines of a text that are not blank: the header and the rows
Lines(text) == SelectSeq(text, LAMBDA line : \E i \in 1..Len(line) : line[i].kind # "blank")
\* a row of the text has fewer fields than the header
HasShortRow(text) ==
    \E r \in 2..Len(Lines(text)) : Len(Lines(text)[r]) < Len(Lines(text)[1])
\* the text has no row: a header alone, or no line at all
HasNoRows(text) == Len(Lines(text)) <= 1
\* the step takes the load l off, stores nothing and queues only the end of
\* the loading state
LoadIsGivenUp(l) ==
    /\ heap' = heap
    /\ data' = data
    /\ filteredData' = filteredData
    /\ currentPoint' = currentPoint
    /\ Len(pending') = Len(pending) + 1
    /\ SubSeq(pending', 1, Len(pending)) = pending
    /\ pending'[Len(pending')].kind = "idle"
\* a render of nothing but ends of loading states keeps the buffer, the fused
\* output and the current point, and ends the loading state
GivenUpLoadKeepsAll ==
    (/\ pending # <<>>
     /\ pending' = <<>>
     /\ \A i \in 1..Len(pending) : pending[i].kind = "idle") =>
        /\ heap' = heap
        /\ data' = data
        /\ filteredData' = filteredData
        /\ currentPoint' = currentPoint
        /\ ~isLoading'

\* C16: a text with a row of fewer fields than the header is not loaded at
\* all: no sample of it is stored, and the buffer, the fused output and the
\* current point stay what they were before the load.
ShortRowFailsTheLoad ==
    [][/\ \A l \in loading \ loading' :
             HasShortRow(Texts[l.file]) => LoadIsGivenUp(l)
       /\ (lastApplied'.file \in 1..Len(Texts)
              /\ HasShortRow(Texts[lastApplied'.file])) => GivenUpLoadKeepsAll]_vars
\* the text with the short row was given up while the default file is on the
\* screen
ShortRowGivenUp ==
    /\ pending = <<>>
    /\ ~isLoading
    /\ lastApplied.kind = "idle"
    /\ lastApplied.file \in 1..Len(Texts)
    /\ HasShortRow(Texts[lastApplied.file])
    /\ Len(data) = Len(Files[DefaultFile])
    /\ currentPoint # NoPoint

\* every row of the text has as many fields as the header, all of them numbers
IsWellFormed(text) ==
    \A r \in 2..Len(Lines(text)) :
        /\ Len(Lines(text)[r]) = Len(Lines(text)[1])
        /\ \A c \in 1..Len(Lines(text)[r]) : Lines(text)[r][c].kind = "number"
\* C17: a text with a row of more or fewer fields than the header, or with a
\* field that is not a number, is never loaded, and no sample with a value
\* that is not a number is in the buffer or the fused output.
MalformedIsNeverLoaded ==
    BatchLoaded =>
        /\ lastApplied.file \in 1..Len(Texts)
        /\ IsWellFormed(Texts[lastApplied.file])
        /\ \A i \in 1..Len(data) :
              /\ IsFinite(heap[data[i]].accelX) /\ IsFinite(heap[data[i]].accelY)
              /\ IsFinite(heap[data[i]].accelZ) /\ IsFinite(heap[data[i]].gyroX)
              /\ IsFinite(heap[data[i]].gyroY) /\ IsFinite(heap[data[i]].gyroZ)
              /\ IsFinite(heap[data[i]].timestamp)

HasFiniteOrientation(p) == IsFinite(p.roll) /\ IsFinite(p.pitch) /\ IsFinite(p.yaw)

\* C19: in a run of the Madgwick strategy, a sample whose acceleration is
\* (0, 0, 0) and every sample after it have a roll, a pitch and a yaw that
\* are finite numbers.
MadgwickSurvivesZeroAcceleration ==
    (FusedState /\ lastApplied.filterType = "madgwick") =>
        \A i \in 1..Len(filteredData) :
            (/\ heap[filteredData[i]].accelX = 0
             /\ heap[filteredData[i]].accelY = 0
             /\ heap[filteredData[i]].accelZ = 0) =>
                \A j \in i..Len(filteredData) :
                    HasFiniteOrientation(heap[filteredData[j]])

\* C20: in a run of the complementary strategy, a sample with the relative
\* time of the sample before it and every sample after it have a compensated
\* acceleration, a roll, a pitch and a yaw that are finite numbers.
ComplementarySurvivesZeroDt ==
    (FusedState /\ lastApplied.filterType = "complementary") =>
        \A i \in 2..Len(filteredData) :
            (heap[filteredData[i]].relativeTime
                = heap[filteredData[i - 1]].relativeTime) =>
                \A j \in i..Len(filteredData) :
                    /\ HasFiniteOrientation(heap[filteredData[j]])
                    /\ IsFinite(heap[filteredData[j]].compAccelX)
                    /\ IsFinite(heap[filteredData[j]].compAccelY)
                    /\ IsFinite(heap[filteredData[j]].compAccelZ)

\* C21: a sample of the fused output whose roll, pitch and yaw were written by
\* the Kalman or the Madgwick strategy carries no compensated acceleration of
\* an earlier complementary run.
FusedFieldsAreOfOneRun ==
    (FusedState /\ lastApplied.filterType \in {"kalman", "madgwick"}) =>
        \A i \in 1..Len(filteredData) :
            /\ heap[filteredData[i]].compAccelX = Undef
            /\ heap[filteredData[i]].compAccelY = Undef
            /\ heap[filteredData[i]].compAccelZ = Undef

\* C22: a fusion pass leaves the samples of the raw buffer as they were: no
\* sample of the buffer has a roll, a pitch, a yaw or a compensated
\* acceleration.
PassLeavesRawBufferAlone ==
    (pending = <<>> /\ lastApplied.kind \in {"batch", "push", "filtered"}) =>
        \A i \in 1..Len(data) :
            /\ heap[data[i]].roll = Undef
            /\ heap[data[i]].pitch = Undef
            /\ heap[data[i]].yaw = Undef
            /\ heap[data[i]].compAccelX = Undef
            /\ heap[data[i]].compAccelY = Undef
            /\ heap[data[i]].compAccelZ = Undef

\* C23: the relative time of every record of a live session is its arrival
\* time less the arrival time of the first record of that session: 0 for the
\* first record, and never below 0.  (pushed holds the records of the session
\* in arrival order, and the model's timestamp of a record is its arrival time.)
RelativeTimeIsSinceFirstRecord ==
    \A i \in 1..Len(pushed) :
        /\ heap[pushed[i]].relativeTime
              = heap[pushed[i]].timestamp - heap[pushed[1]].timestamp
        /\ heap[pushed[i]].relativeTime >= 0

\* C25: each of the three strategies, run on the samples of the fused output
\* (none, raw ones, or ones that earlier runs have annotated), returns as many
\* samples in the same order, each with the timestamp, relative time,
\* acceleration, rates and altitude of its input and with no field that the
\* input has not.
StrategiesKeepTheSamples ==
    \A ft \in FilterTypes :
        \A out \in {applySelectedFilter(Objects(heap, filteredData), ft)} :
            /\ Len(out) = Len(filteredData)
            /\ \A i \in 1..Len(out) :
                  /\ RawOf(out[i]) = RawOf(heap[filteredData[i]])
                  /\ DOMAIN out[i] = DOMAIN heap[filteredData[i]]
\* three samples, not all alike, have been fused by the Madgwick strategy
MadgwickFusedThree ==
    /\ FusedState
    /\ lastApplied.filterType = "madgwick"
    /\ Len(filteredData) = MaxLen
    /\ RawOf(heap[filteredData[1]]) # RawOf(heap[filteredData[MaxLen]])
    /\ IsFinite(heap[filteredData[MaxLen]].roll)

\* the vector product, and a vector in whole units
Cross(u, v) == <<u[2] * v[3] - u[3] * v[2], u[3] * v[1] - u[1] * v[3],
                 u[1] * v[2] - u[2] * v[1]>>
Whole(v) == <<v[1] \div SCALE, v[2] \div SCALE, v[3] \div SCALE>>
\* a - (w x (w x r) + alpha x r), component c
RigidBody(a, w, alpha, r, c) ==
    a[c] - (Cross(w, Cross(w, r))[c] + Cross(alpha, r)[c])

\* C24: every call of compensateAcceleration returns
\* a - (w x (w x r) + alpha x r) for its arguments a, w, alpha and r, the same
\* at every call; with w = 0 and alpha = 0 it returns a.
CompensateIsRigidBody ==
    (Len(heap) >= 1 /\ "sensorPosition" \in DOMAIN heap[1]) =>
        \A k \in 2..Len(heap) :
            LET a == Whole(heap[1].accel)
                w == Whole(heap[1].gyro)
                alpha == Whole(heap[1].angAccel)
                r == Whole(heap[1].sensorPosition)
            IN  /\ heap[k].x = RigidBody(a, w, alpha, r, 1) * SCALE
                /\ heap[k].y = RigidBody(a, w, alpha, r, 2) * SCALE
                /\ heap[k].z = RigidBody(a, w, alpha, r, 3) * SCALE
                /\ (w = <<0, 0, 0>> /\ alpha = <<0, 0, 0>>) =>
                      <<heap[k].x, heap[k].y, heap[k].z>> = heap[1].accel
\* the function was called twice for a turning, accelerating body, and what it
\* returned is not the measured acceleration
CompensatedTwice ==
    /\ Len(heap) = 1 + MaxCalls
    /\ "sensorPosition" \in DOMAIN heap[1]
    /\ heap[1].gyro = Scaled(<<0 - 3, 1, 2>>)
    /\ heap[1].angAccel = Scaled(<<0, 2, 0 - 1>>)
    /\ heap[1].sensorPosition = Scaled(<<1, 1, 1>>)
    /\ heap[2].x # heap[1].accel[1]
    /\ heap[3] = heap[2]

\* C26: while real-time mode is active a connection is open, also after a
\* close (the close and the timer three seconds after it are one step); and
\* no connection is open when real-time mode has been stopped.
ReconnectsWhileRealtime ==
    /\ isRealtime => ws.open
    /\ ~isRealtime => ~ws.open

\* C27: when every queued update is rendered, the raw buffer and the fused
\* output have the same length and the same timestamp at every index.
BufferAndFusedOutputAgree ==
    pending = <<>> =>
        /\ Len(data) = Len(filteredData)
        /\ \A i \in 1..Len(data) :
              i <= Len(filteredData)
                  => heap[data[i]].timestamp = heap[filteredData[i]].timestamp

\* C28: once real-time mode has been stopped no sample is made any more, not
\* even by a fetch that was waiting for the API when it was stopped, and no
\* polling timer is active.
NoSampleAfterStop ==
    [][/\ ~isRealtime => poll.timers = {}
       /\ (~isRealtime /\ ~isRealtime') => (heap' = heap /\ pushed' = pushed)]_vars

PollGivesUpAndClears ==
    [][/\ \A f \in poll'.fetches : f.retries \in 1..3
       /\ \A f \in poll.fetches :
             (f.retries = 1 /\ f \notin poll'.fetches /\ heap' = heap) =>
                 /\ ~isRealtime'
                 /\ \A t \in poll'.timers : t.id # f.timer.id]_vars

====
